---------------------------- MODULE Spec2Model ----------------------------
(***************************************************************************)
(* A model of oidc-role-manager: the Configuration Loader                  *)
(* (oidc_role_manager/config_loader.py), the Resource Definition Builder   *)
(* (oidc_role_manager/iam_resources.py), the Stack Orchestrator            *)
(* (oidc_role_manager/pulumi_manager.py) and the command line (cli.py).    *)
(*                                                                         *)
(* Python strings that the code takes apart or puts together (startswith,  *)
(* replace, f-strings, os.path.join) are sequences of one-character        *)
(* strings, so that two different ways of building the same text give      *)
(* equal values.  Strings that are only ever compared (JSON keys, tag      *)
(* keys, program positions) are TLA+ strings.                              *)
(***************************************************************************)
EXTENDS Integers, Sequences, FiniteSets, TLC

VARIABLES
    \* ---- the declarative program (pulumi_manager._create_pulumi_program)
    role_configs,    \* the list of RoleConfig the program was created for
    pidx,            \* how many of them the program loop has processed
    resources,       \* resource requests registered so far, in order
    exports,         \* pulumi.export calls so far, in order: [key, value]
    created_roles,   \* the program's created_roles dict: role name -> role id
    pstatus,         \* "start" | "roles" | "done"
    default_tags,    \* the module-level dict constants.DEFAULT_TAGS as it is now
    \* ---- PulumiStackManager fields (pulumi_manager.py, __init__)
    aws_region,      \* <<>> when None or empty (both are falsy)
    aws_profile,     \* <<>> when None or empty
    \* ---- the roles directory and the Configuration Loader (config_loader.py)
    fs,              \* account directory name -> entry name -> entry; an entry
                     \* is [kind |-> "file"] or [kind |-> "dir", files |-> F],
                     \* F: file name -> [kind, val], kind being "dict", "list",
                     \* "scalar" (the parsed JSON) or "invalid" (unparsable)
    lcall,           \* the loader call last made: [op, account_id, target]
    lresult,         \* what it gave: [raised, value, errors]
    \* ---- the engine's backend (the Pulumi state behind auto.*)
    stacks,          \* stack name -> [config, recorded, actual, outputs]:
                     \* the stored configuration, the recorded resources, the
                     \* resources that exist in the account, the stack outputs
    \* ---- a PulumiStackManager and the method it is executing
    stack_name,      \* self.stack_name
    current_stack,   \* self._current_stack: <<>> while the attribute is unset
    method,          \* the method being executed, "" when none
    pc,              \* the engine call the method is about to make, or
                     \* "idle" (no method called), "ret" (the method ended)
    cidx,            \* set_config calls made by the current method
    calls,           \* the engine calls [method, op, stack, ok, err] made since
                     \* the method was called or, in a CLI invocation, since
                     \* it started
    mret,            \* how the last method ended: [raised, value, outputs]
    ncalls,          \* methods called on the manager so far
    \* ---- a CLI invocation (cli.py)
    inv,             \* its command and options
    account_stack_name,  \* its account-specific stack name
    exit_code,       \* its exit status, -1 while it runs
    report,          \* what it last told the user about its outcome, "" if nothing
    account_dirs,    \* validate: the account directories not yet examined
    total_errors,    \* validate: its error counter
    confirm_answer,  \* what click.confirm returned: "yes", "no", or "unasked"
                     \* when the invocation has not called it
    stack_files,     \* list-stacks: the state files not yet looked at
    found_stacks     \* list-stacks: its found_stacks list

pvars == <<role_configs, pidx, resources, exports, created_roles, pstatus, default_tags>>
mvars == <<aws_region, aws_profile>>
lvars == <<fs, lcall, lresult>>
evars == <<stacks, stack_name, current_stack, method, pc, cidx, calls, mret, ncalls>>
cvars == <<inv, account_stack_name, exit_code, report, account_dirs, total_errors,
          confirm_answer, stack_files, found_stacks>>
vars == <<pvars, mvars, lvars, evars, cvars>>

----------------------------------------------------------------------------
(***************************************************************************)
(* Bounds of the model.                                                    *)
(***************************************************************************)
MaxRoles == 2        \* role configurations given to one program run
MaxManaged == 2      \* entries of one managed-policies list
MaxInline == 2       \* inline policy files of one role
MaxDirs == 2         \* role directories of one account directory
MaxCalls == 3        \* method calls on one stack manager

----------------------------------------------------------------------------
(***************************************************************************)
(* Python str operations on character sequences.                           *)
(***************************************************************************)
StartsWith(s, p) == Len(p) <= Len(s) /\ SubSeq(s, 1, Len(p)) = p

EndsWith(s, p) == Len(p) <= Len(s) /\ SubSeq(s, Len(s) - Len(p) + 1, Len(s)) = p

Drop(s, n) == SubSeq(s, n + 1, Len(s))

\* str.replace(old, new, count) for a non-empty old: the leftmost
\* non-overlapping occurrences, at most count of them (count < 0: all).
RECURSIVE Replace(_, _, _, _)
Replace(s, old, new, count) ==
    IF s = <<>> \/ count = 0 THEN s
    ELSE IF StartsWith(s, old)
         THEN new \o Replace(Drop(s, Len(old)), old, new, count - 1)
         ELSE <<Head(s)>> \o Replace(Tail(s), old, new, count)

ReplaceAll(s, old, new) == Replace(s, old, new, -1)

\* str(i) of a natural number, as an f-string formats it.
Digit(d) == <<"0", "1", "2", "3", "4", "5", "6", "7", "8", "9">>[d + 1]

RECURSIVE IntToStr(_)
IntToStr(n) == IF n < 10 THEN <<Digit(n)>>
               ELSE IntToStr(n \div 10) \o <<Digit(n % 10)>>

\* os.path.join(a, b) on POSIX.
PathJoin(a, b) ==
    IF b # <<>> /\ Head(b) = "/" THEN b
    ELSE IF a = <<>> \/ a[Len(a)] = "/" THEN a \o b
    ELSE a \o <<"/">> \o b

\* dict.update / dict literal semantics on functions: the right side wins.
DictUpdate(d, u) ==
    [k \in DOMAIN d \cup DOMAIN u |-> IF k \in DOMAIN u THEN u[k] ELSE d[k]]

DictSet(d, k, v) == [x \in DOMAIN d \cup {k} |-> IF x = k THEN v ELSE d[x]]

EmptyDict == [k \in {} |-> <<>>]

\* The outcome of a call: raised is "" or the exception class, value the
\* returned value, errors the role directories an error was logged for.
Returned(v) == [raised |-> "", value |-> v, errors |-> <<>>]
Raised(e) == [raised |-> e, value |-> <<>>, errors |-> <<>>]

----------------------------------------------------------------------------
(***************************************************************************)
(* String literals of the source.                                          *)
(***************************************************************************)
HTTPS == <<"h","t","t","p","s",":","/","/">>
ARN_PREFIX == <<"a","r","n",":","a","w","s",":","i","a","m",":",":">>
OIDC_PROVIDER == <<":","o","i","d","c","-","p","r","o","v","i","d","e","r","/">>
SUB_SUFFIX == <<":","s","u","b">>
AUD_SUFFIX == <<":","a","u","d">>
DEFAULT_AUDIENCE == <<"s","t","s",".","a","m","a","z","o","n","a","w","s",".","c","o","m">>
INLINE_PREFIX == <<"i","n","l","i","n","e","-">>
JSON_SUFFIX == <<".","j","s","o","n">>
ROLE_SUFFIX == <<"-","r","o","l","e">>
MANAGED_INFIX == <<"-","m","a","n","a","g","e","d","-">>
INLINE_INFIX == <<"-","i","n","l","i","n","e","-">>
ROLE_ARN_KEY == <<"_","r","o","l","e","_","a","r","n">>
ROLE_NAME_KEY == <<"_","r","o","l","e","_","n","a","m","e">>
ARN_KEY == <<"_","a","r","n">>
NAME_KEY == <<"_","n","a","m","e">>
GITHUB_ACTION == <<"G","i","t","H","u","b","A","c","t","i","o","n">>
DEPLOY == <<"D","e","p","l","o","y">>

\* constants.DEFAULT_TAGS
DEFAULT_TAGS ==
    [ManagedBy |-> <<"O","I","D","C","-","R","o","l","e","-","M","a","n","a","g","e","r">>,
     Environment |-> <<"D","e","v","e","l","o","p","m","e","n","t">>,
     Tool |-> <<"P","u","l","u","m","i">>,
     Purpose |-> <<"O","I","D","C","-","G","i","t","H","u","b","-","I","n","t","e","g","r","a","t","i","o","n">>]

----------------------------------------------------------------------------
(***************************************************************************)
(* RoleConfig (config_loader.py).                                          *)
(*   details           a record: the JSON object of details.json; string   *)
(*                     values are character sequences, the value of "tags" *)
(*                     is a JSON value [kind, val]                         *)
(*   managed_policies  a sequence of policy ARNs                           *)
(*   inline_policies   the dict file name -> document, as the sequence of  *)
(*                     its items in insertion order: [name, doc]           *)
(***************************************************************************)
RoleConfig(account_id, role_name_dir, details, managed_policies, inline_policies, base_dir) ==
    [account_id |-> account_id,
     role_name_dir |-> role_name_dir,
     details |-> details,
     managed_policies |-> managed_policies,
     inline_policies |-> inline_policies,
     path |-> PathJoin(PathJoin(base_dir, account_id), role_name_dir)]

\* RoleConfig.role_name: details.get('roleName')
role_name(config) == config.details.roleName

----------------------------------------------------------------------------
(***************************************************************************)
(* Resource Definition Builder (iam_resources.py).                         *)
(***************************************************************************)
\* _construct_github_oidc_provider_details: <<provider ARN, url without scheme>>
NoSchemeKeepAll(account_id, oidc_url_from_config) ==
    <<ARN_PREFIX \o account_id \o OIDC_PROVIDER \o oidc_url_from_config,
      oidc_url_from_config>>

construct_github_oidc_provider_details(account_id, oidc_url_from_config) ==
    LET oidc_url_no_scheme ==
            IF StartsWith(oidc_url_from_config, HTTPS)
            THEN Drop(oidc_url_from_config, Len(HTTPS))
            ELSE oidc_url_from_config
    IN <<ARN_PREFIX \o account_id \o OIDC_PROVIDER \o oidc_url_no_scheme,
         oidc_url_no_scheme>>

\* _generate_github_assume_role_policy: the policy document that json.dumps
\* serialises (json.dumps keeps the structure; the document is kept as the
\* structure itself).  The StringEquals dict literal is built key by key.
PolicyWithoutAudience(oidc_provider_arn, oidc_url_no_scheme, subject_claim, audience) ==
    [Version |-> "2012-10-17",
     Statement |-> <<
        [Effect |-> "Allow",
         Principal |-> [Federated |-> oidc_provider_arn],
         Action |-> "sts:AssumeRoleWithWebIdentity",
         Condition |-> [StringEquals |->
            DictSet(EmptyDict, oidc_url_no_scheme \o SUB_SUFFIX, subject_claim)]]
     >>]

generate_github_assume_role_policy(oidc_provider_arn, oidc_url_no_scheme, subject_claim, audience) ==
    [Version |-> "2012-10-17",
     Statement |-> <<
        [Effect |-> "Allow",
         Principal |-> [Federated |-> oidc_provider_arn],
         Action |-> "sts:AssumeRoleWithWebIdentity",
         Condition |-> [StringEquals |->
            DictSet(DictSet(EmptyDict,
                            oidc_url_no_scheme \o SUB_SUFFIX, subject_claim),
                    oidc_url_no_scheme \o AUD_SUFFIX, audience)]]
     >>]

\* _prepare_tags
TagsRoleWins(config) ==
    LET traced == DictSet(DictSet(DEFAULT_TAGS, "ConfigPath", config.path),
                          "AccountId", config.account_id)
    IN IF "tags" \in DOMAIN config.details /\ config.details.tags.kind = "dict"
       THEN DictUpdate(traced, config.details.tags.val)
       ELSE traced

prepare_tags(config) ==
    LET current_tags ==
            IF "tags" \in DOMAIN config.details /\ config.details.tags.kind = "dict"
            THEN DictUpdate(default_tags, config.details.tags.val)
            ELSE default_tags
    IN DictSet(DictSet(current_tags, "ConfigPath", config.path),
               "AccountId", config.account_id)

\* _prepare_tags without line 49's .copy(): current_tags is the module-level
\* dict itself, and the update and the two assignments land in it
DefaultTagsUpdatedInPlace(config) == prepare_tags(config)

\* constants.DEFAULT_TAGS after _prepare_tags(config): line 49 works on a
\* copy, the table is as it was
default_tags_after(config) == default_tags

\* _create_iam_role: the aws.iam.Role request
create_iam_role(pulumi_resource_name, role_name_, assume_role_policy_doc, tags) ==
    [type |-> "Role",
     id |-> pulumi_resource_name,
     name |-> role_name_,
     assume_role_policy |-> assume_role_policy_doc,
     tags |-> tags]

\* _attach_managed_policies: one aws.iam.RolePolicyAttachment per list entry
attach_managed_policies(pulumi_resource_name_prefix, managed_policy_arns, iam_role_name) ==
    [i \in 1..Len(managed_policy_arns) |->
        [type |-> "RolePolicyAttachment",
         id |-> pulumi_resource_name_prefix \o MANAGED_INFIX \o IntToStr(i - 1),
         role |-> iam_role_name,
         policy_arn |-> managed_policy_arns[i]]]

\* policy_file_name.replace("inline-", "", 1).replace(".json", "")
cleaned_policy_name_from_file(policy_file_name) ==
    ReplaceAll(Replace(policy_file_name, INLINE_PREFIX, <<>>, 1), JSON_SUFFIX, <<>>)

\* _attach_inline_policies: one aws.iam.RolePolicy per item of the dict
attach_inline_policies(pulumi_resource_name_prefix, role_name_for_log, inline_policies_map, iam_role_name) ==
    [i \in 1..Len(inline_policies_map) |->
        LET cleaned == cleaned_policy_name_from_file(inline_policies_map[i].name)
        IN [type |-> "RolePolicy",
            id |-> pulumi_resource_name_prefix \o INLINE_INFIX \o cleaned,
            role |-> iam_role_name,
            name |-> role_name_for_log \o <<"-">> \o cleaned,
            policy |-> inline_policies_map[i].doc]]

\* config.details.get('audience', 'sts.amazonaws.com')
audience_of(config) ==
    IF "audience" \in DOMAIN config.details THEN config.details.audience
    ELSE DEFAULT_AUDIENCE

pulumi_resource_name_base(config) == config.account_id \o <<"-">> \o role_name(config)

\* create_iam_role_for_github_oidc: the resource requests it registers, in order
role_resources(config) ==
    LET base == pulumi_resource_name_base(config)
        provider == construct_github_oidc_provider_details(
                        config.account_id, config.details.oidcProviderUrl)
        policy == generate_github_assume_role_policy(
                        provider[1], provider[2],
                        config.details.githubSubjectClaim, audience_of(config))
        iam_role == create_iam_role(base \o ROLE_SUFFIX, role_name(config),
                                    policy, prepare_tags(config))
    IN <<iam_role>>
       \o attach_managed_policies(base, config.managed_policies, iam_role.name)
       \o attach_inline_policies(base, role_name(config), config.inline_policies,
                                 iam_role.name)

\* create_iam_role_for_github_oidc: its two _safe_export calls
role_exports(config) ==
    LET base == pulumi_resource_name_base(config)
    IN <<[key |-> base \o ROLE_ARN_KEY, value |-> base \o ROLE_SUFFIX],
         [key |-> base \o ROLE_NAME_KEY, value |-> base \o ROLE_SUFFIX]>>

----------------------------------------------------------------------------
(***************************************************************************)
(* The declarative program (PulumiStackManager._create_pulumi_program).    *)
(***************************************************************************)
AWS_PROVIDER == <<"a","w","s","-","p","r","o","v","i","d","e","r">>

\* dict assignment d[k] = v on a dict kept as its items in insertion order
ItemsSet(items, k, v) ==
    IF \E i \in 1..Len(items) : items[i].name = k
    THEN [i \in 1..Len(items) |->
            IF items[i].name = k THEN [name |-> k, role |-> v] ELSE items[i]]
    ELSE Append(items, [name |-> k, role |-> v])

\* role_name.replace('GitHubAction', '').replace('Deploy', ''), or role_name
export_base(role_name_) ==
    LET cleaned == ReplaceAll(ReplaceAll(role_name_, GITHUB_ACTION, <<>>), DEPLOY, <<>>)
    IN IF cleaned = <<>> THEN role_name_ ELSE cleaned

program_exports(items) ==
    IF items = <<>> THEN <<>>
    ELSE LET both(i) == <<[key |-> export_base(items[i].name) \o ARN_KEY,
                           value |-> items[i].role],
                          [key |-> export_base(items[i].name) \o NAME_KEY,
                           value |-> items[i].role]>>
             RECURSIVE upto(_)
             upto(n) == IF n = 0 THEN <<>> ELSE upto(n - 1) \o both(n)
         IN upto(Len(items))

\* pulumi_program, lines 51-63: the provider is registered when a region is set
ProgramConfigureProvider ==
    /\ pstatus = "start"
    /\ resources' = IF aws_region # <<>>
                    THEN Append(resources,
                                [type |-> "Provider", id |-> AWS_PROVIDER,
                                 region |-> aws_region, profile |-> aws_profile])
                    ELSE resources
    /\ pstatus' = "roles"
    /\ UNCHANGED <<role_configs, pidx, exports, created_roles, default_tags, mvars, lvars,
                   evars, cvars>>

\* pulumi_program, lines 66-74: one iteration of the loop over role_configs
ProgramDefineRole ==
    /\ pstatus = "roles"
    /\ pidx < Len(role_configs)
    /\ LET config == role_configs[pidx + 1]
           made == role_resources(config)
       IN /\ resources' = resources \o made
          /\ exports' = exports \o role_exports(config)
          /\ created_roles' = ItemsSet(created_roles, role_name(config), made[1].id)
          /\ default_tags' = default_tags_after(config)
    /\ pidx' = pidx + 1
    /\ UNCHANGED <<role_configs, pstatus, mvars, lvars, evars, cvars>>

\* pulumi_program, lines 76-86: the exports after the loop
ProgramExportRoles ==
    /\ pstatus = "roles"
    /\ pidx = Len(role_configs)
    /\ exports' = exports \o program_exports(created_roles)
    /\ pstatus' = "done"
    /\ UNCHANGED <<role_configs, pidx, resources, created_roles, default_tags, mvars, lvars,
                   evars, cvars>>

NextProgram ==
    \/ ProgramConfigureProvider
    \/ ProgramDefineRole
    \/ ProgramExportRoles

----------------------------------------------------------------------------
(***************************************************************************)
(* Inputs of the builder specifications.                                   *)
(***************************************************************************)
ACCOUNT_A == <<"1","2","3","4","5","6","7","8","9","0","1","2">>
ACCOUNT_B == <<"2","1","0","9","8","7","6","5","4","3","2","1">>
AccountIds == {ACCOUNT_A, ACCOUNT_B}
BaseDir == <<"r","o","l","e","s">>
Regions == {<<>>, <<"e","u">>}

Host == <<"t",".","c">>
Issuers == {Host, HTTPS \o Host, HTTPS \o HTTPS \o Host,
            <<"h","t","t","p",":","/","/">> \o Host}
Subjects == {<<"r",":","a">>, <<"r",":","*">>}
Audiences == {<<"a","u","d">>}
RoleNames == {<<"R">>, DEPLOY \o <<"R">>, GITHUB_ACTION}
RoleDir(i) == <<"d">> \o IntToStr(i)

TagValues ==
    {[kind |-> "list", val |-> <<>>],
     [kind |-> "dict", val |-> [Environment |-> <<"P","r","o","d">>, Team |-> <<"x">>]],
     [kind |-> "dict", val |-> [ConfigPath |-> <<"e","v","i","l">>, AccountId |-> <<"0">>]]}

\* details.json objects holding the three required keys and any optional ones
RequiredDetails ==
    {[roleName |-> n, oidcProviderUrl |-> u, githubSubjectClaim |-> s] :
        n \in RoleNames, u \in Issuers, s \in Subjects}

WithOptional(S, key, values) == S \cup {DictSet(d, key, v) : d \in S, v \in values}

DetailsObjects == WithOptional(WithOptional(RequiredDetails, "audience", Audiences),
                               "tags", TagValues)

PolicyArns == {<<"p","1">>}
ManagedLists == UNION {[1..n -> PolicyArns] : n \in 0..MaxManaged}

InlineName(x) == INLINE_PREFIX \o x \o JSON_SUFFIX
InlineFileNames == {InlineName(<<"a">>), InlineName(<<"a">> \o JSON_SUFFIX),
                    InlineName(<<"b">>)}
PolicyDoc == [Version |-> "2012-10-17"]
InlineDicts ==
    UNION {{[i \in 1..n |-> [name |-> f[i], doc |-> PolicyDoc]] :
                f \in {g \in [1..n -> InlineFileNames] :
                         \A i, j \in 1..n : i # j => g[i] # g[j]}} :
           n \in 0..MaxInline}

BuilderConfigs ==
    {RoleConfig(a, RoleDir(1), d, m, p, BaseDir) :
        a \in AccountIds, d \in DetailsObjects, m \in ManagedLists, p \in InlineDicts}

\* No stack manager and no CLI invocation is part of a builder or loader
\* specification.
NoInvocation == [cmd |-> "none"]

InitEngineIdle ==
    /\ stacks = EmptyDict
    /\ stack_name = <<>>
    /\ current_stack = <<>>
    /\ method = ""
    /\ pc = "idle"
    /\ cidx = 0
    /\ calls = <<>>
    /\ mret = [raised |-> "", value |-> "None", outputs |-> {}]
    /\ ncalls = 0
    /\ inv = NoInvocation
    /\ account_stack_name = <<>>
    /\ exit_code = -1
    /\ report = ""
    /\ account_dirs = <<>>
    /\ total_errors = 0
    /\ confirm_answer = "unasked"
    /\ stack_files = <<>>
    /\ found_stacks = <<>>

\* No loader call is part of a builder specification.
InitLoaderIdle ==
    /\ fs = EmptyDict
    /\ lcall = [op |-> "none", account_id |-> <<>>, target |-> <<>>]
    /\ lresult = Returned(<<>>)

InitProgramState ==
    /\ InitLoaderIdle
    /\ InitEngineIdle
    /\ pidx = 0
    /\ resources = <<>>
    /\ exports = <<>>
    /\ created_roles = <<>>
    /\ pstatus = "start"
    /\ default_tags = DEFAULT_TAGS

\* One RoleConfig of any shape, given to the program.
InitBuilder ==
    /\ role_configs \in {<<c>> : c \in BuilderConfigs}
    /\ InitProgramState
    /\ aws_region \in Regions
    /\ aws_profile = <<>>

SpecBuilder == InitBuilder /\ [][NextProgram]_vars

----------------------------------------------------------------------------
(***************************************************************************)
(* Claims about the Resource Definition Builder.                           *)
(***************************************************************************)
\* The aws.iam.Role requests registered so far; the i-th belongs to the
\* i-th RoleConfig of the program's list.
RoleRequests == SelectSeq(resources, LAMBDA r : r.type = "Role")

\* The issuer as the claims name it: the configured URL without one leading
\* "https://".
IssuerOf(config) ==
    LET url == config.details.oidcProviderUrl
    IN IF Len(url) >= 8 /\ SubSeq(url, 1, 8) = <<"h","t","t","p","s",":","/","/">>
       THEN SubSeq(url, 9, Len(url)) ELSE url

\* C1: the trust policy of every role has exactly one statement, an Allow of
\* sts:AssumeRoleWithWebIdentity whose only principal is the federated
\* provider of the configured issuer in the config's account, and whose only
\* condition is a StringEquals block with exactly the keys <issuer>:sub, bound
\* to the configured githubSubjectClaim, and <issuer>:aud, bound to the
\* configured audience or to sts.amazonaws.com when none is configured.
C1_TrustPolicyBindsSubAndAud ==
    /\ Len(RoleRequests) = pidx
    /\ \A i \in 1..Len(RoleRequests) :
        LET config == role_configs[i]
            policy == RoleRequests[i].assume_role_policy
            stmt == policy.Statement[1]
            subKey == IssuerOf(config) \o <<":","s","u","b">>
            audKey == IssuerOf(config) \o <<":","a","u","d">>
        IN /\ Len(policy.Statement) = 1
           /\ stmt.Effect = "Allow"
           /\ stmt.Action = "sts:AssumeRoleWithWebIdentity"
           /\ DOMAIN stmt.Principal = {"Federated"}
           /\ stmt.Principal.Federated =
                ARN_PREFIX \o config.account_id \o OIDC_PROVIDER \o IssuerOf(config)
           /\ DOMAIN stmt.Condition = {"StringEquals"}
           /\ DOMAIN stmt.Condition.StringEquals = {subKey, audKey}
           /\ stmt.Condition.StringEquals[subKey] = config.details.githubSubjectClaim
           /\ stmt.Condition.StringEquals[audKey] =
                (IF "audience" \in DOMAIN config.details
                 THEN config.details.audience
                 ELSE <<"s","t","s",".","a","m","a","z","o","n","a","w","s",".","c","o","m">>)

\* C1 witness: a role was defined from a config that sets no audience and
\* gives its issuer with the https:// scheme.
C1_Witness ==
    /\ pidx = 1
    /\ Len(RoleRequests) = 1
    /\ "audience" \notin DOMAIN role_configs[1].details
    /\ StartsWith(role_configs[1].details.oidcProviderUrl, HTTPS)

\* C8: the tags of every role are the default tags, overridden key by key by
\* the role's own tags when these are a mapping, and ConfigPath and AccountId
\* are always the config's path and account id.
C8_TagsMergedAndTraced ==
    \A i \in 1..Len(RoleRequests) :
        LET config == role_configs[i]
            tags == RoleRequests[i].tags
            own == IF "tags" \in DOMAIN config.details
                      /\ config.details.tags.kind = "dict"
                   THEN config.details.tags.val ELSE EmptyDict
        IN /\ DOMAIN tags = DOMAIN DEFAULT_TAGS \cup DOMAIN own
                            \cup {"ConfigPath", "AccountId"}
           /\ tags["ConfigPath"] = config.path
           /\ tags["AccountId"] = config.account_id
           /\ config.path = BaseDir \o <<"/">> \o config.account_id
                            \o <<"/">> \o config.role_name_dir
           /\ \A k \in DOMAIN tags \ {"ConfigPath", "AccountId"} :
                tags[k] = IF k \in DOMAIN own THEN own[k] ELSE DEFAULT_TAGS[k]

\* C8 witness: a role was defined whose own tags supply ConfigPath and AccountId.
C8_Witness ==
    /\ Len(RoleRequests) = 1
    /\ "tags" \in DOMAIN role_configs[1].details
    /\ role_configs[1].details.tags.kind = "dict"
    /\ {"ConfigPath", "AccountId"} \subseteq DOMAIN role_configs[1].details.tags.val

----------------------------------------------------------------------------
(***************************************************************************)
(* The program run over a list of discovered RoleConfigs of one account.   *)
(* Discovery gives every config its own directory; role names, managed     *)
(* lists and inline file names are whatever the files hold.                *)
(***************************************************************************)
ProgramDetails ==
    {[roleName |-> n, oidcProviderUrl |-> HTTPS \o Host,
      githubSubjectClaim |-> <<"r",":","a">>] : n \in RoleNames}

ProgramManagedLists == {<<>>} \cup [1..MaxManaged -> PolicyArns]

\* The inline dicts over inline-a.json and inline-a.json.json, in one listing order.
ProgramInlineDicts ==
    {p \in InlineDicts :
        /\ \A i \in 1..Len(p) : p[i].name # InlineName(<<"b">>)
        /\ \A i \in 1..Len(p) : i > 1 => p[i].name # InlineName(<<"a">>)}

ProgramConfigs(account_id, i) ==
    {RoleConfig(account_id, RoleDir(i), d, m, p, BaseDir) :
        d \in ProgramDetails, m \in ProgramManagedLists, p \in ProgramInlineDicts}

ProgramConfigLists ==
    UNION {{cs \in [1..n -> UNION {ProgramConfigs(a, i) : i \in 1..n}] :
                \A i \in 1..n : cs[i].role_name_dir = RoleDir(i)} :
           a \in {ACCOUNT_A}, n \in 1..MaxRoles}

InitProgram ==
    /\ role_configs \in ProgramConfigLists
    /\ InitProgramState
    /\ aws_region \in Regions
    /\ aws_profile = <<>>

SpecProgram == InitProgram /\ [][NextProgram]_vars

\* The role, managed-attachment and inline-policy requests registered so far.
RoleScopedRequests ==
    SelectSeq(resources, LAMBDA r : r.type \in {"Role", "RolePolicyAttachment", "RolePolicy"})

\* C7: within one program run no two role, managed-policy-attachment or
\* inline-policy requests carry the same resource identifier.
C7_ResourceIdsDistinct ==
    \A i, j \in 1..Len(RoleScopedRequests) :
        i # j => RoleScopedRequests[i].id # RoleScopedRequests[j].id

----------------------------------------------------------------------------
(***************************************************************************)
(* Configuration Loader (config_loader.py).                                *)
(***************************************************************************)
DETAILS_JSON == <<"d","e","t","a","i","l","s",".","j","s","o","n">>
MANAGED_JSON == <<"m","a","n","a","g","e","d","-","p","o","l","i","c","i","e","s",".","j","s","o","n">>
REQUIRED_DETAILS_FIELDS == <<"roleName", "oidcProviderUrl", "githubSubjectClaim">>

\* os.path.isdir of <base>/<account_id> and of <base>/<account_id>/<name>
IsAccountDir(account_id) == account_id \in DOMAIN fs

IsRoleDir(account_id, name) ==
    /\ IsAccountDir(account_id)
    /\ name \in DOMAIN fs[account_id]
    /\ fs[account_id][name].kind = "dir"

\* _load_json_file on a file of the directory whose files are `files`
load_json_file(files, file_name, is_list, optional) ==
    IF file_name \notin DOMAIN files
    THEN IF optional THEN Returned(IF is_list THEN <<>> ELSE EmptyDict)
         ELSE Raised("ConfigError")
    ELSE LET data == files[file_name]
         IN IF data.kind = "invalid" THEN Raised("ConfigError")
            ELSE IF is_list /\ data.kind # "list" THEN Raised("ConfigError")
            ELSE IF ~is_list /\ data.kind # "dict" THEN Raised("ConfigError")
            ELSE Returned(data.val)

\* load_role_config, lines 70-79: the loop over os.listdir(role_dir_path)
RECURSIVE LoadInlineKeepInvalid(_, _)
LoadInlineKeepInvalid(files, listing) ==
    IF listing = <<>> THEN <<>>
    ELSE LET item_name == Head(listing)
             rest == LoadInlineKeepInvalid(files, Tail(listing))
         IN IF StartsWith(item_name, INLINE_PREFIX) /\ EndsWith(item_name, JSON_SUFFIX)
            THEN <<[name |-> item_name, doc |-> files[item_name].val]>> \o rest
            ELSE rest

RECURSIVE load_inline_policies(_, _)
load_inline_policies(files, listing) ==
    IF listing = <<>> THEN <<>>
    ELSE LET item_name == Head(listing)
             rest == load_inline_policies(files, Tail(listing))
         IN IF StartsWith(item_name, INLINE_PREFIX) /\ EndsWith(item_name, JSON_SUFFIX)
            THEN LET policy_doc == load_json_file(files, item_name, FALSE, FALSE)
                 IN IF policy_doc.raised # "" THEN rest
                    ELSE <<[name |-> item_name, doc |-> policy_doc.value]>> \o rest
            ELSE rest

\* os.listdir of a directory: its names in the order name_order ranks them
Listing(names, name_order) == SelectSeq(name_order, LAMBDA n : n \in names)

\* a load that does not look for the required keys
LoadWithoutRequiredKeys(account_id, role_name_dir, name_order) ==
    IF ~IsRoleDir(account_id, role_name_dir) THEN Raised("ConfigError")
    ELSE
    LET files == fs[account_id][role_name_dir].files
        details_data == load_json_file(files, DETAILS_JSON, FALSE, FALSE)
        managed_policies_data == load_json_file(files, MANAGED_JSON, TRUE, TRUE)
    IN IF details_data.raised # "" THEN details_data
       ELSE IF managed_policies_data.raised # "" THEN managed_policies_data
       ELSE Returned(RoleConfig(account_id, role_name_dir, details_data.value,
                                managed_policies_data.value,
                                load_inline_policies(files, Listing(DOMAIN files, name_order)),
                                BaseDir))

\* a load that takes a managed-policies.json it cannot use for an empty list
LoadBadManagedAsEmpty(account_id, role_name_dir, name_order) ==
    IF ~IsRoleDir(account_id, role_name_dir) THEN Raised("ConfigError")
    ELSE
    LET files == fs[account_id][role_name_dir].files
        details_data == load_json_file(files, DETAILS_JSON, FALSE, FALSE)
        managed_policies_data == load_json_file(files, MANAGED_JSON, TRUE, TRUE)
    IN IF details_data.raised # "" THEN details_data
       ELSE IF \E i \in 1..Len(REQUIRED_DETAILS_FIELDS) :
                  REQUIRED_DETAILS_FIELDS[i] \notin DOMAIN details_data.value
       THEN Raised("ConfigError")
       ELSE Returned(RoleConfig(account_id, role_name_dir, details_data.value,
                                IF managed_policies_data.raised # "" THEN <<>>
                                ELSE managed_policies_data.value,
                                load_inline_policies(files, Listing(DOMAIN files, name_order)),
                                BaseDir))

\* load_role_config
load_role_config(account_id, role_name_dir, name_order) ==
    IF ~IsRoleDir(account_id, role_name_dir) THEN Raised("ConfigError")
    ELSE
    LET files == fs[account_id][role_name_dir].files
        details_data == load_json_file(files, DETAILS_JSON, FALSE, FALSE)
    IN IF details_data.raised # "" THEN details_data
       ELSE IF \E i \in 1..Len(REQUIRED_DETAILS_FIELDS) :
                  REQUIRED_DETAILS_FIELDS[i] \notin DOMAIN details_data.value
       THEN Raised("ConfigError")
       ELSE
       LET managed_policies_data == load_json_file(files, MANAGED_JSON, TRUE, TRUE)
       IN IF managed_policies_data.raised # "" THEN managed_policies_data
          ELSE Returned(RoleConfig(account_id, role_name_dir, details_data.value,
                                   managed_policies_data.value,
                                   load_inline_policies(files, Listing(DOMAIN files, name_order)),
                                   BaseDir))

\* discover_role_configs, lines 113-122: the loop over role_name_dirs_to_process
RECURSIVE load_each(_, _, _)
load_each(account_id, dirs, name_order) ==
    IF dirs = <<>> THEN Returned(<<>>)
    ELSE LET config == load_role_config(account_id, Head(dirs), name_order)
             rest == load_each(account_id, Tail(dirs), name_order)
         IN IF config.raised # ""
            THEN [rest EXCEPT !.errors = <<Head(dirs)>> \o @]
            ELSE [rest EXCEPT !.value = <<config.value>> \o @]

\* a loop that lets the first ConfigError end discovery with nothing
RECURSIVE load_each_or_nothing(_, _, _)
load_each_or_nothing(account_id, dirs, name_order) ==
    IF dirs = <<>> THEN Returned(<<>>)
    ELSE LET config == load_role_config(account_id, Head(dirs), name_order)
             rest == load_each_or_nothing(account_id, Tail(dirs), name_order)
         IN IF config.raised # "" \/ rest.errors # <<>>
            THEN [Returned(<<>>) EXCEPT !.errors = <<Head(dirs)>>]
            ELSE [rest EXCEPT !.value = <<config.value>> \o @]

DiscoverAllOrNothing(account_id, target_role_name, dir_order, name_order) ==
    IF ~IsAccountDir(account_id) THEN Returned(<<>>)
    ELSE IF target_role_name # <<>>
         THEN IF IsRoleDir(account_id, target_role_name)
              THEN load_each_or_nothing(account_id, <<target_role_name>>, name_order)
              ELSE Returned(<<>>)
         ELSE load_each_or_nothing(account_id,
                        SelectSeq(Listing(DOMAIN fs[account_id], dir_order),
                                  LAMBDA n : IsRoleDir(account_id, n)),
                        name_order)

\* a loop that returns from inside its first iteration
DiscoverFirstOnly(account_id, target_role_name, dir_order, name_order) ==
    IF ~IsAccountDir(account_id) THEN Returned(<<>>)
    ELSE LET dirs == IF target_role_name # <<>> THEN <<target_role_name>>
                     ELSE SelectSeq(Listing(DOMAIN fs[account_id], dir_order),
                                    LAMBDA n : IsRoleDir(account_id, n))
         IN load_each(account_id, IF dirs = <<>> THEN dirs ELSE <<Head(dirs)>>, name_order)

\* a discovery that loads every role directory whatever the filter
DiscoverIgnoringFilter(account_id, target_role_name, dir_order, name_order) ==
    IF ~IsAccountDir(account_id) THEN Returned(<<>>)
    ELSE LET all == CHOOSE o \in [1..Cardinality(DOMAIN fs[account_id]) -> DOMAIN fs[account_id]] :
                        \A n \in DOMAIN fs[account_id] : \E k \in DOMAIN o : o[k] = n
         IN load_each(account_id, SelectSeq(all, LAMBDA n : IsRoleDir(account_id, n)),
                      name_order)

\* discover_role_configs: dir_order is the order in which os.listdir gives
\* the account directory's entries
discover_role_configs(account_id, target_role_name, dir_order, name_order) ==
    IF ~IsAccountDir(account_id) THEN Returned(<<>>)
    ELSE IF target_role_name # <<>>
         THEN IF IsRoleDir(account_id, target_role_name)
              THEN load_each(account_id, <<target_role_name>>, name_order)
              ELSE Returned(<<>>)
         ELSE load_each(account_id,
                        SelectSeq(Listing(DOMAIN fs[account_id], dir_order),
                                  LAMBDA n : IsRoleDir(account_id, n)),
                        name_order)

----------------------------------------------------------------------------
(***************************************************************************)
(* The roles directories the loader is run on.                             *)
(***************************************************************************)
README == <<"R","E","A","D","M","E">>
INLINE_A == InlineName(<<"a">>)
INLINE_B == InlineName(<<"b">>)
INLINE_TXT == <<"i","n","l","i","n","e","-","c",".","t","x","t">>
MISSING_DIR == <<"d","9">>

Dict(v) == [kind |-> "dict", val |-> v]
List(v) == [kind |-> "list", val |-> v]
Invalid == [kind |-> "invalid", val |-> <<>>]

GoodDetails(n) ==
    Dict([roleName |-> n, oidcProviderUrl |-> HTTPS \o Host,
          githubSubjectClaim |-> <<"r",":","a">>])

Files1(n1, c1) == DictSet(EmptyDict, n1, c1)
Files2(n1, c1, n2, c2) == DictSet(Files1(n1, c1), n2, c2)
Files3(n1, c1, n2, c2, n3, c3) == DictSet(Files2(n1, c1, n2, c2), n3, c3)

\* Role directories whose details.json is missing, unparsable, not an
\* object, or lacks one required key.
BadDetailsDirs ==
    {EmptyDict,
     Files1(DETAILS_JSON, Invalid),
     Files1(DETAILS_JSON, List(<<>>)),
     Files1(DETAILS_JSON, Dict([oidcProviderUrl |-> Host, githubSubjectClaim |-> <<"r">>])),
     Files1(DETAILS_JSON, Dict([roleName |-> <<"R">>, githubSubjectClaim |-> <<"r">>])),
     Files2(DETAILS_JSON, Dict([roleName |-> <<"R">>, oidcProviderUrl |-> Host]),
            INLINE_A, Dict(PolicyDoc))}

\* Role directories with good details and a managed-policies.json that is
\* unparsable or not a list.
BadManagedDirs ==
    {Files2(DETAILS_JSON, GoodDetails(<<"R">>), MANAGED_JSON, Invalid),
     Files2(DETAILS_JSON, GoodDetails(<<"R">>), MANAGED_JSON, Dict(EmptyDict))}

\* Role directories that load.
GoodDirs ==
    {Files1(DETAILS_JSON, GoodDetails(<<"R">>)),
     Files2(DETAILS_JSON, GoodDetails(DEPLOY \o <<"R">>),
            MANAGED_JSON, List(<<<<"p","1">>, <<"p","2">>>>)),
     Files2(DETAILS_JSON, GoodDetails(<<"R">>), INLINE_A, Dict(PolicyDoc)),
     Files3(DETAILS_JSON, GoodDetails(<<"R">>), INLINE_A, Invalid, INLINE_B, Dict(PolicyDoc)),
     Files3(DETAILS_JSON, GoodDetails(<<"R">>), INLINE_A, Dict(PolicyDoc), INLINE_B, List(<<>>)),
     Files3(DETAILS_JSON, GoodDetails(<<"R">>), INLINE_A, Dict(PolicyDoc),
            INLINE_B, Dict([Version |-> "2008-10-17"])),
     Files3(DETAILS_JSON, GoodDetails(<<"R">>), INLINE_B, Dict(PolicyDoc),
            INLINE_TXT, Dict(PolicyDoc))}

RoleDirFiles == BadDetailsDirs \cup BadManagedDirs \cup GoodDirs

\* The entries of an account directory: the role directories d1..dn with
\* the files dirs[1]..dirs[n], and possibly a plain file.
AccountDir(dirs, with_file) ==
    [name \in {RoleDir(i) : i \in 1..Len(dirs)} \cup (IF with_file THEN {README} ELSE {}) |->
        IF name = README THEN [kind |-> "file", files |-> EmptyDict]
        ELSE [kind |-> "dir",
              files |-> dirs[CHOOSE i \in 1..Len(dirs) : RoleDir(i) = name]]]

AccountDirs ==
    UNION {{AccountDir(dirs, with_file) :
                dirs \in [1..n -> RoleDirFiles], with_file \in BOOLEAN} :
           n \in 0..MaxDirs}

\* The roles directory: without the account's directory, or with it.
FileSystems == {EmptyDict} \cup {DictSet(EmptyDict, ACCOUNT_A, d) : d \in AccountDirs}

\* The orders os.listdir can give.
Orders(S) == {f \in [1..Cardinality(S) -> S] : \A i, j \in DOMAIN f : i # j => f[i] # f[j]}

NameOrders == {<<DETAILS_JSON, MANAGED_JSON, INLINE_TXT>> \o o : o \in Orders({INLINE_A, INLINE_B})}

EntriesOf(account_id) == IF IsAccountDir(account_id) THEN DOMAIN fs[account_id] ELSE {}

RoleFilters == {RoleDir(1), README, MISSING_DIR}

\* The program and the stack manager take no part in a loader specification.
InitProgramIdle ==
    /\ role_configs = <<>>
    /\ pidx = 0
    /\ resources = <<>>
    /\ exports = <<>>
    /\ created_roles = <<>>
    /\ pstatus = "done"
    /\ default_tags = DEFAULT_TAGS
    /\ aws_region = <<>>
    /\ aws_profile = <<>>

InitLoader ==
    /\ fs \in FileSystems
    /\ lcall = [op |-> "none", account_id |-> <<>>, target |-> <<>>]
    /\ lresult = Returned(<<>>)
    /\ InitProgramIdle
    /\ InitEngineIdle

\* discover_role_configs(base, account_id) without a role filter
DiscoverAll ==
    /\ lcall.op = "none"
    /\ \E dir_order \in Orders(EntriesOf(ACCOUNT_A)), name_order \in NameOrders :
        lresult' = discover_role_configs(ACCOUNT_A, <<>>, dir_order, name_order)
    /\ lcall' = [op |-> "discover", account_id |-> ACCOUNT_A, target |-> <<>>]
    /\ UNCHANGED <<fs, pvars, mvars, evars, cvars>>

\* discover_role_configs(base, account_id, target_role_name)
DiscoverOne ==
    /\ lcall.op = "none"
    /\ \E target \in RoleFilters, name_order \in NameOrders :
        /\ lresult' = discover_role_configs(ACCOUNT_A, target, <<>>, name_order)
        /\ lcall' = [op |-> "discover", account_id |-> ACCOUNT_A, target |-> target]
    /\ UNCHANGED <<fs, pvars, mvars, evars, cvars>>

\* load_role_config(base, account_id, role_name_dir), called directly
LoadRole ==
    /\ lcall.op = "none"
    /\ \E dir \in EntriesOf(ACCOUNT_A) \cup {MISSING_DIR}, name_order \in NameOrders :
        /\ lresult' = load_role_config(ACCOUNT_A, dir, name_order)
        /\ lcall' = [op |-> "load", account_id |-> ACCOUNT_A, target |-> dir]
    /\ UNCHANGED <<fs, pvars, mvars, evars, cvars>>

NextLoader == DiscoverAll \/ DiscoverOne \/ LoadRole

SpecLoader == InitLoader /\ [][NextLoader]_vars

----------------------------------------------------------------------------
(***************************************************************************)
(* Claims about the Configuration Loader.                                  *)
(***************************************************************************)
RoleDirsOf(account_id) ==
    {n \in EntriesOf(account_id) : fs[account_id][n].kind = "dir"}

FilesOf(account_id, dir) == fs[account_id][dir].files

\* details.json is there, is a JSON object and holds the three required keys
DetailsOk(files) ==
    /\ DETAILS_JSON \in DOMAIN files
    /\ files[DETAILS_JSON].kind = "dict"
    /\ {"roleName", "oidcProviderUrl", "githubSubjectClaim"}
            \subseteq DOMAIN files[DETAILS_JSON].val

\* managed-policies.json is absent or a JSON list
ManagedOk(files) ==
    MANAGED_JSON \notin DOMAIN files \/ files[MANAGED_JSON].kind = "list"

WellFormed(files) == DetailsOk(files) /\ ManagedOk(files)

ReturnedDirs == {lresult.value[i].role_name_dir : i \in 1..Len(lresult.value)}

\* C5: discovery never raises; a role directory whose details.json is
\* missing, malformed or lacks a required key is not in the result (and an
\* error is logged for it when it was processed); and without a role filter
\* every well-formed sibling is in the result, whatever the listing order.
C5_DiscoveryIsPartialFailure ==
    lcall.op = "discover" =>
        /\ lresult.raised = ""
        /\ \A d \in RoleDirsOf(lcall.account_id) :
            ~DetailsOk(FilesOf(lcall.account_id, d)) =>
                /\ d \notin ReturnedDirs
                /\ (lcall.target \in {<<>>, d}) =>
                        (\E i \in 1..Len(lresult.errors) : lresult.errors[i] = d)
        /\ (lcall.target = <<>>) =>
            (\A d \in RoleDirsOf(lcall.account_id) :
                WellFormed(FilesOf(lcall.account_id, d)) => d \in ReturnedDirs)

\* C5 witness: an unfiltered discovery of an account with a role directory
\* that lacks a required key and a well-formed sibling, which was returned.
C5_Witness ==
    /\ lcall.op = "discover"
    /\ lcall.target = <<>>
    /\ \E bad, good \in RoleDirsOf(lcall.account_id) :
        /\ DETAILS_JSON \in DOMAIN FilesOf(lcall.account_id, bad)
        /\ FilesOf(lcall.account_id, bad)[DETAILS_JSON].kind = "dict"
        /\ ~DetailsOk(FilesOf(lcall.account_id, bad))
        /\ WellFormed(FilesOf(lcall.account_id, good))
        /\ good \in ReturnedDirs

\* C6: when every role directory of the account is well-formed, discovery
\* without a filter returns exactly one RoleConfig per role directory, none
\* for other entries, and each one's role_name is its details.json roleName.
C6_OneConfigPerWellFormedDir ==
    ( /\ lcall.op = "discover"
      /\ lcall.target = <<>>
      /\ \A d \in RoleDirsOf(lcall.account_id) :
            WellFormed(FilesOf(lcall.account_id, d)) )
    => /\ lresult.raised = ""
       /\ Len(lresult.value) = Cardinality(RoleDirsOf(lcall.account_id))
       /\ ReturnedDirs = RoleDirsOf(lcall.account_id)
       /\ \A i \in 1..Len(lresult.value) :
            /\ lresult.value[i].account_id = lcall.account_id
            /\ role_name(lresult.value[i]) =
                 FilesOf(lcall.account_id, lresult.value[i].role_name_dir)[DETAILS_JSON].val.roleName

\* C6 witness: such a discovery over two role directories with different
\* role names and a plain file beside them.
C6_Witness ==
    /\ lcall.op = "discover"
    /\ lcall.target = <<>>
    /\ \A d \in RoleDirsOf(lcall.account_id) : WellFormed(FilesOf(lcall.account_id, d))
    /\ README \in EntriesOf(lcall.account_id)
    /\ Len(lresult.value) = 2
    /\ role_name(lresult.value[1]) # role_name(lresult.value[2])

\* The inline policies of a loaded config are exactly the inline-*.json
\* files of its directory that hold a JSON object, each under its file name.
InlineAsFiles(config) ==
    LET files == FilesOf(config.account_id, config.role_name_dir)
        valid == {n \in DOMAIN files :
                    /\ StartsWith(n, INLINE_PREFIX) /\ EndsWith(n, JSON_SUFFIX)
                    /\ files[n].kind = "dict"}
        items == config.inline_policies
    IN /\ {items[i].name : i \in 1..Len(items)} = valid
       /\ Len(items) = Cardinality(valid)
       /\ \A i \in 1..Len(items) : items[i].doc = files[items[i].name].val

\* C10: a role whose details.json and managed-policies.json are good loads
\* whatever its inline files hold, and its inline_policies are then exactly
\* its inline-*.json files that are JSON objects: the unparsable ones and
\* those of another top-level type are left out.
C10_BadInlineFilesAreSkipped ==
    /\ ( /\ lcall.op = "load"
         /\ IsRoleDir(lcall.account_id, lcall.target)
         /\ WellFormed(FilesOf(lcall.account_id, lcall.target)) )
       => (lresult.raised = "" /\ InlineAsFiles(lresult.value))
    /\ (lcall.op = "discover") =>
            (\A i \in 1..Len(lresult.value) : InlineAsFiles(lresult.value[i]))

\* C10 witness: a direct load that succeeded on a directory with one inline
\* file that is no JSON object and one that is.
C10_Witness ==
    /\ lcall.op = "load"
    /\ lresult.raised = ""
    /\ Len(lresult.value.inline_policies) = 1
    /\ \E n \in DOMAIN FilesOf(lcall.account_id, lcall.target) :
        /\ StartsWith(n, INLINE_PREFIX) /\ EndsWith(n, JSON_SUFFIX)
        /\ FilesOf(lcall.account_id, lcall.target)[n].kind # "dict"

----------------------------------------------------------------------------
(***************************************************************************)
(* Stack Orchestrator (pulumi_manager.py).                                 *)
(* The engine is the Pulumi Automation API: every call on it may raise;    *)
(* when it does it leaves the backend as it was.                           *)
(* auto.create_or_select_stack creates the stack when the backend has none *)
(* of that name.  The five methods share one shape, so there is one action *)
(* per engine call and next_step gives the call that follows in a method.  *)
(***************************************************************************)
NewStack == [config |-> EmptyDict, recorded |-> {}, actual |-> {}, outputs |-> {}]

\* _get_stack_config: the items of the dict it returns, in insertion order
get_stack_config ==
    (IF aws_region # <<>> THEN <<[key |-> "aws:region", value |-> aws_region]>> ELSE <<>>)
    \o (IF aws_profile # <<>> THEN <<[key |-> "aws:profile", value |-> aws_profile]>> ELSE <<>>)

\* the engine call a method makes after `step` succeeded ("return": none)
PreviewWithoutRefresh(m, step) ==
    CASE step = "create_or_select_stack" ->
            IF m \in {"preview_deployment", "deploy", "destroy"} THEN "set_config"
            ELSE IF m = "get_outputs" THEN "outputs" ELSE "info"
      [] step = "set_config" ->
            IF m = "destroy" THEN "destroy"
            ELSE IF m = "preview_deployment" THEN "preview" ELSE "refresh"
      [] step = "refresh" -> IF m = "preview_deployment" THEN "preview" ELSE "up"
      [] OTHER -> "return"

next_step(m, step) ==
    CASE step = "create_or_select_stack" ->
            IF m \in {"preview_deployment", "deploy", "destroy"} THEN "set_config"
            ELSE IF m = "get_outputs" THEN "outputs" ELSE "info"
      [] step = "set_config" -> IF m = "destroy" THEN "destroy" ELSE "refresh"
      [] step = "refresh" -> IF m = "preview_deployment" THEN "preview" ELSE "up"
      [] OTHER -> "return"

\* the same, past a set_config loop over an empty dict
step_after(m, step) ==
    LET n == next_step(m, step)
    IN IF n = "set_config" /\ get_stack_config = <<>> THEN next_step(m, "set_config") ELSE n

\* What one run of the program declares: the resource identifiers and the
\* exported keys.
RECURSIVE program_resources(_)
program_resources(configs) ==
    IF configs = <<>> THEN <<>>
    ELSE role_resources(Head(configs)) \o program_resources(Tail(configs))

RECURSIVE program_role_exports(_)
program_role_exports(configs) ==
    IF configs = <<>> THEN <<>>
    ELSE role_exports(Head(configs)) \o program_role_exports(Tail(configs))

RECURSIVE program_created_roles(_, _)
program_created_roles(items, configs) ==
    IF configs = <<>> THEN items
    ELSE program_created_roles(
            ItemsSet(items, role_name(Head(configs)),
                     pulumi_resource_name_base(Head(configs)) \o ROLE_SUFFIX),
            Tail(configs))

DeclaredIds(configs) ==
    LET rs == program_resources(configs)
    IN {rs[i].id : i \in 1..Len(rs)} \cup (IF aws_region # <<>> THEN {AWS_PROVIDER} ELSE {})

DeclaredOutputs(configs) ==
    LET es == program_role_exports(configs)
              \o program_exports(program_created_roles(<<>>, configs))
    IN {es[i].key : i \in 1..Len(es)}

MethodReturn(value, outs) == [raised |-> "", value |-> value, outputs |-> outs]
MethodRaise(err) == [raised |-> err, value |-> "None", outputs |-> {}]

\* How an engine call ends: it returns, or it raises one of the engine's errors.
EngineErrors == {"CommandError", "ConcurrentUpdateError"}
Outcomes == {"ok"} \cup EngineErrors

Logged(op, out) ==
    calls' = Append(calls, [method |-> method, op |-> op, stack |-> stack_name,
                            ok |-> (out = "ok"),
                            err |-> IF out = "ok" THEN "" ELSE out])

\* an except clause that logs the failure and returns None
FailureSwallowed(err) ==
    /\ pc' = "ret"
    /\ mret' = MethodReturn("None", {})

\* the except clause of the method: get_stack_info returns None, the others re-raise
MethodFails(err) ==
    /\ pc' = "ret"
    /\ mret' = IF method = "get_stack_info" THEN MethodReturn("None", {})
               ELSE MethodRaise(err)

\* the method goes on to its next engine call, or returns value
MethodGoesOn(step, value, outs) ==
    LET n == step_after(method, step)
    IN IF n = "return" THEN pc' = "ret" /\ mret' = MethodReturn(value, outs)
       ELSE pc' = n /\ mret' = mret

\* auto.create_or_select_stack(stack_name=self.stack_name, ...)
EngineCreateOrSelect ==
    /\ pc = "create_or_select_stack"
    /\ \E out \in Outcomes : LET ok == (out = "ok") IN
        /\ Logged("create_or_select_stack", out)
        /\ IF ok
           THEN /\ stacks' = IF stack_name \in DOMAIN stacks THEN stacks
                             ELSE DictSet(stacks, stack_name, NewStack)
                /\ MethodGoesOn("create_or_select_stack", "None", {})
           ELSE /\ stacks' = stacks
                /\ MethodFails(out)
    /\ UNCHANGED <<stack_name, current_stack, method, cidx, ncalls, pvars, mvars, lvars, cvars>>

\* stack.set_config(key, auto.ConfigValue(value=value)), one item of the loop
EngineSetConfig ==
    /\ pc = "set_config"
    /\ \E out \in Outcomes :
        LET ok == (out = "ok")
            item == get_stack_config[cidx + 1]
        IN /\ Logged("set_config", out)
           /\ IF ok
              THEN /\ stacks' = [stacks EXCEPT ![stack_name].config =
                                    DictSet(@, item.key, item.value)]
                   /\ cidx' = cidx + 1
                   /\ IF cidx + 1 < Len(get_stack_config)
                      THEN pc' = pc /\ mret' = mret
                      ELSE MethodGoesOn("set_config", "None", {})
              ELSE /\ stacks' = stacks
                   /\ cidx' = cidx
                   /\ MethodFails(out)
    /\ UNCHANGED <<stack_name, current_stack, method, ncalls, pvars, mvars, lvars, cvars>>

\* stack.refresh(): the recorded resources that no longer exist are dropped
EngineRefresh ==
    /\ pc = "refresh"
    /\ \E out \in Outcomes : LET ok == (out = "ok") IN
        /\ Logged("refresh", out)
        /\ IF ok
           THEN /\ stacks' = [stacks EXCEPT ![stack_name].recorded =
                                    @ \cap stacks[stack_name].actual]
                /\ MethodGoesOn("refresh", "None", {})
           ELSE /\ stacks' = stacks
                /\ MethodFails(out)
    /\ UNCHANGED <<stack_name, current_stack, method, cidx, ncalls, pvars, mvars, lvars, cvars>>

\* stack.preview(): runs the program and reports the difference
EnginePreview ==
    /\ pc = "preview"
    /\ \E out \in Outcomes : LET ok == (out = "ok") IN
        /\ Logged("preview", out)
        /\ IF ok THEN MethodGoesOn("preview", "PreviewResult", {}) ELSE MethodFails(out)
    /\ UNCHANGED <<stacks, stack_name, current_stack, method, cidx, ncalls, pvars, mvars, lvars, cvars>>

\* stack.up(): runs the program and applies it; then self._current_stack = stack
EngineUp ==
    /\ pc = "up"
    /\ \E out \in Outcomes : LET ok == (out = "ok") IN
        /\ Logged("up", out)
        /\ IF ok
           THEN /\ stacks' = [stacks EXCEPT ![stack_name] =
                                [@ EXCEPT !.recorded = DeclaredIds(role_configs),
                                          !.actual = DeclaredIds(role_configs),
                                          !.outputs = DeclaredOutputs(role_configs)]]
                /\ current_stack' = stack_name
                /\ MethodGoesOn("up", "UpResult", {})
           ELSE /\ stacks' = stacks
                /\ current_stack' = current_stack
                /\ MethodFails(out)
    /\ UNCHANGED <<stack_name, method, cidx, ncalls, pvars, mvars, lvars, cvars>>

\* stack.destroy()
EngineDestroy ==
    /\ pc = "destroy"
    /\ \E out \in Outcomes : LET ok == (out = "ok") IN
        /\ Logged("destroy", out)
        /\ IF ok
           THEN /\ stacks' = [stacks EXCEPT ![stack_name] =
                                [@ EXCEPT !.recorded = {}, !.actual = {}, !.outputs = {}]]
                /\ MethodGoesOn("destroy", "DestroyResult", {})
           ELSE /\ stacks' = stacks
                /\ MethodFails(out)
    /\ UNCHANGED <<stack_name, current_stack, method, cidx, ncalls, pvars, mvars, lvars, cvars>>

\* get_outputs, lines 228-232: self._current_stack.outputs(); a failure is
\* logged and the method falls through to a new stack connection
EngineCurrentOutputs ==
    /\ pc = "current_outputs"
    /\ \E out \in Outcomes : LET ok == (out = "ok") IN
        /\ Logged("outputs", out)
        /\ IF ok
           THEN pc' = "ret" /\ mret' = MethodReturn("outputs", stacks[current_stack].outputs)
           ELSE pc' = "create_or_select_stack" /\ mret' = mret
    /\ UNCHANGED <<stacks, stack_name, current_stack, method, cidx, ncalls, pvars, mvars, lvars, cvars>>

\* stack.outputs() on the newly selected stack
EngineOutputs ==
    /\ pc = "outputs"
    /\ \E out \in Outcomes : LET ok == (out = "ok") IN
        /\ Logged("outputs", out)
        /\ IF ok THEN MethodGoesOn("outputs", "outputs", stacks[stack_name].outputs)
           ELSE MethodFails(out)
    /\ UNCHANGED <<stacks, stack_name, current_stack, method, cidx, ncalls, pvars, mvars, lvars, cvars>>

\* stack.info(): the summary of the selected stack
EngineInfo ==
    /\ pc = "info"
    /\ \E out \in Outcomes : LET ok == (out = "ok") IN
        /\ Logged("info", out)
        /\ IF ok THEN MethodGoesOn("info", "StackSummary", {}) ELSE MethodFails(out)
    /\ UNCHANGED <<stacks, stack_name, current_stack, method, cidx, ncalls, pvars, mvars, lvars, cvars>>

\* The account changes behind the engine's back: a deployed resource is deleted.
Drift ==
    /\ \E n \in DOMAIN stacks : \E r \in stacks[n].actual :
        stacks' = [stacks EXCEPT ![n].actual = @ \ {r}]
    /\ UNCHANGED <<stack_name, current_stack, method, pc, cidx, calls, mret, ncalls,
                   pvars, mvars, lvars, cvars>>

\* A method starts: nothing is returned yet.
MethodBegin(m, first) ==
    /\ method' = m
    /\ pc' = first
    /\ cidx' = 0
    /\ mret' = MethodReturn("None", {})

\* A caller of the manager is between two method calls.
ApiIdle ==
    /\ pc \in {"idle", "ret"}
    /\ inv.cmd = "none"
    /\ ncalls < MaxCalls

\* preview_deployment(role_configs)
ApiPreviewDeployment(configs) ==
    /\ ApiIdle
    /\ MethodBegin("preview_deployment", "create_or_select_stack")
    /\ role_configs' = configs
    /\ calls' = <<>>
    /\ ncalls' = ncalls + 1
    /\ UNCHANGED <<stacks, stack_name, current_stack, pidx, resources, exports,
                   created_roles, pstatus, default_tags, mvars, lvars, cvars>>

\* deploy(role_configs)
ApiDeploy(configs) ==
    /\ ApiIdle
    /\ MethodBegin("deploy", "create_or_select_stack")
    /\ role_configs' = configs
    /\ calls' = <<>>
    /\ ncalls' = ncalls + 1
    /\ UNCHANGED <<stacks, stack_name, current_stack, pidx, resources, exports,
                   created_roles, pstatus, default_tags, mvars, lvars, cvars>>

\* destroy()
ApiDestroy ==
    /\ ApiIdle
    /\ MethodBegin("destroy", "create_or_select_stack")
    /\ calls' = <<>>
    /\ ncalls' = ncalls + 1
    /\ UNCHANGED <<stacks, stack_name, current_stack, pvars, mvars, lvars, cvars>>

\* get_outputs(): the stack stored by deploy is asked first when there is one
\* a get_outputs that never uses the remembered stack
OutputsAlwaysSelect == "create_or_select_stack"

first_step_of_get_outputs ==
    IF current_stack # <<>> THEN "current_outputs" ELSE "create_or_select_stack"

ApiGetOutputs ==
    /\ ApiIdle
    /\ MethodBegin("get_outputs", first_step_of_get_outputs)
    /\ calls' = <<>>
    /\ ncalls' = ncalls + 1
    /\ UNCHANGED <<stacks, stack_name, current_stack, pvars, mvars, lvars, cvars>>

\* get_stack_info()
ApiGetStackInfo ==
    /\ ApiIdle
    /\ MethodBegin("get_stack_info", "create_or_select_stack")
    /\ calls' = <<>>
    /\ ncalls' = ncalls + 1
    /\ UNCHANGED <<stacks, stack_name, current_stack, pvars, mvars, lvars, cvars>>

----------------------------------------------------------------------------
(***************************************************************************)
(* One stack manager, called any number of times up to MaxCalls, on a      *)
(* backend that starts without stacks.                                     *)
(***************************************************************************)
DEV == <<"d","e","v">>

ManagerRole(i, n, managed) ==
    RoleConfig(ACCOUNT_A, RoleDir(i),
               [roleName |-> n, oidcProviderUrl |-> HTTPS \o Host,
                githubSubjectClaim |-> <<"r",":","a">>],
               managed, <<>>, BaseDir)

ManagerConfigLists ==
    {<<ManagerRole(1, <<"R">>, <<<<"p","1">>>>)>>,
     <<ManagerRole(1, <<"R">>, <<>>), ManagerRole(2, DEPLOY \o <<"R">>, <<>>)>>}

Profiles == {<<>>, <<"p">>}

InitManager ==
    /\ role_configs = <<>>
    /\ pidx = 0
    /\ resources = <<>>
    /\ exports = <<>>
    /\ created_roles = <<>>
    /\ pstatus = "done"
    /\ default_tags = DEFAULT_TAGS
    /\ aws_region \in Regions
    /\ aws_profile \in Profiles
    /\ InitLoaderIdle
    /\ stacks = EmptyDict
    /\ stack_name = DEV
    /\ current_stack = <<>>
    /\ method = ""
    /\ pc = "idle"
    /\ cidx = 0
    /\ calls = <<>>
    /\ mret = MethodReturn("None", {})
    /\ ncalls = 0
    /\ inv = NoInvocation
    /\ account_stack_name = <<>>
    /\ exit_code = -1
    /\ report = ""
    /\ account_dirs = <<>>
    /\ total_errors = 0
    /\ confirm_answer = "unasked"
    /\ stack_files = <<>>
    /\ found_stacks = <<>>

NextManager ==
    \/ \E configs \in ManagerConfigLists : ApiPreviewDeployment(configs)
    \/ \E configs \in ManagerConfigLists : ApiDeploy(configs)
    \/ ApiDestroy
    \/ ApiGetOutputs
    \/ ApiGetStackInfo
    \/ EngineCreateOrSelect
    \/ EngineSetConfig
    \/ EngineRefresh
    \/ EnginePreview
    \/ EngineUp
    \/ EngineDestroy
    \/ EngineCurrentOutputs
    \/ EngineOutputs
    \/ EngineInfo
    \/ Drift

SpecManager == InitManager /\ [][NextManager]_vars

----------------------------------------------------------------------------
(***************************************************************************)
(* Claims about the Stack Orchestrator.                                    *)
(***************************************************************************)
\* What the engine keeps remotely: the stacks, the configuration stored with
\* each and the resource state recorded for each.
RemoteState ==
    [n \in DOMAIN stacks |->
        [config |-> stacks[n].config, recorded |-> stacks[n].recorded]]

\* C2: no step of the method a dry-run deploy calls, preview_deployment,
\* changes the set of stacks, a stack's stored configuration or a stack's
\* recorded resource state.
C2_DryRunLeavesRemoteStateAlone ==
    [][(method = "preview_deployment" /\ pc \notin {"idle", "ret"})
            => RemoteState' = RemoteState]_vars

InDeployOrPreview == method \in {"preview_deployment", "deploy"}

FinalCall == IF method = "preview_deployment" THEN "preview" ELSE "up"

\* The engine calls of one whole execution of the running method.
FullOrder ==
    <<"create_or_select_stack">>
    \o [i \in 1..Len(get_stack_config) |-> "set_config"]
    \o <<"refresh", FinalCall>>

CallsOf(op) == {i \in 1..Len(calls) : calls[i].op = op}

\* The calls so far are the first calls of FullOrder, each on the manager's
\* stack, and only the last of them can have failed.
CallsInOrder ==
    /\ Len(calls) <= Len(FullOrder)
    /\ \A i \in 1..Len(calls) :
        /\ calls[i].op = FullOrder[i]
        /\ calls[i].stack = stack_name
        /\ i < Len(calls) => calls[i].ok

\* preview and up come after a successful refresh of the same stack
FinalCallAfterRefresh ==
    \A i \in CallsOf("preview") \cup CallsOf("up") :
        \E j \in CallsOf("refresh") :
            j < i /\ calls[j].ok /\ calls[j].stack = calls[i].stack

\* The execution got past create-or-select and every set_config.
ConfiguredStack ==
    \E n \in 1..Len(calls) :
        /\ n = 1 + Len(get_stack_config)
        /\ \A i \in 1..n : calls[i].ok

\* C4 as stated: the engine calls of preview_deployment and deploy come in
\* the order create-or-select, set_config, refresh, preview/up; preview/up is
\* only called after a successful refresh of the same stack in the same
\* execution; every finished execution has called refresh exactly once.
C4_RefreshExactlyOnceInEveryExecution ==
    InDeployOrPreview =>
        /\ CallsInOrder
        /\ FinalCallAfterRefresh
        /\ (pc = "ret" => Cardinality(CallsOf("refresh")) = 1)

\* C4, amended: the order and the refresh-before-preview/up rule as above;
\* refresh is called at most once in an execution, and exactly once in every
\* finished execution whose create-or-select and set_config calls all
\* succeeded.
C4_RefreshOnceBeforePreviewOrUp ==
    InDeployOrPreview =>
        /\ CallsInOrder
        /\ FinalCallAfterRefresh
        /\ Cardinality(CallsOf("refresh")) <= 1
        /\ (pc = "ret" /\ ConfiguredStack) => Cardinality(CallsOf("refresh")) = 1
        /\ (pc = "ret" /\ mret.raised = "") => Cardinality(CallsOf(FinalCall)) = 1

\* A deploy with two configuration values that ran to its end.
C4_Witness ==
    /\ method = "deploy"
    /\ pc = "ret"
    /\ mret.raised = ""
    /\ Len(get_stack_config) = 2
    /\ Len(calls) = 5
    /\ calls[4].op = "refresh"
    /\ calls[5].op = "up"

----------------------------------------------------------------------------
(***************************************************************************)
(* Command-line front end (cli.py): the commands deploy, destroy and       *)
(* status.  Every invocation is a process of its own: it builds its own    *)
(* stack manager, and only the roles directory and the engine's backend    *)
(* outlive it.                                                             *)
(***************************************************************************)
SUCCESS == 0
GENERAL_ERROR == 1
CONFIG_ERROR == 2
\* click ends the process with its usage-error status on a BadParameter
BAD_PARAMETER == 2

DIGITS == {"0", "1", "2", "3", "4", "5", "6", "7", "8", "9"}

\* validate_aws_account_id: TRUE when the value is returned, FALSE when
\* click.BadParameter is raised
validate_aws_account_id(value) ==
    /\ value # <<>>
    /\ \A k \in 1..Len(value) : value[k] \in DIGITS
    /\ Len(value) = 12

\* a stack name that leaves the account out
StackNameWithoutAccount(base, account_id) == base

\* f"{stack_name}-{account_id}"
account_stack_name_of(base, account_id) == base \o <<"-">> \o account_id

\* PulumiStackManager(**kwargs): __init__ takes these keywords and no other
INIT_PARAMETERS == {"project_name", "stack_name", "aws_region", "aws_profile", "backend_url"}

KeywordOr(kwargs, k, default) == IF k \in DOMAIN kwargs THEN kwargs[k] ELSE default

PulumiStackManager(kwargs) ==
    IF DOMAIN kwargs \subseteq INIT_PARAMETERS
    THEN Returned([stack_name |-> KeywordOr(kwargs, "stack_name", DEV),
                   aws_region |-> KeywordOr(kwargs, "aws_region", <<>>),
                   aws_profile |-> KeywordOr(kwargs, "aws_profile", <<>>)])
    ELSE Raised("TypeError")

\* What a command does next: leave with a status after a last message, or
\* call a manager method.
Exit(code, message) == [exit |-> code, call |-> "", message |-> message]
Call(m) == [exit |-> -1, call |-> m, message |-> ""]

\* click.confirm's return value as the commands branch on it
Answer(confirmed) == IF confirmed THEN "yes" ELSE "no"

\* deploy, lines 279-288: click.confirm is called
deploy_asks(i, found, made) ==
    /\ found.raised = ""
    /\ found.value # <<>>
    /\ made.raised = ""
    /\ ~i.dry_run
    /\ ~i.auto_approve /\ ~i.json_output

\* destroy, lines 394-401: click.confirm is called
destroy_asks(i, m, ret) ==
    /\ i.cmd = "destroy"
    /\ m = "get_stack_info"
    /\ ret.raised = ""
    /\ ret.value # "None"
    /\ ~i.auto_approve /\ ~i.json_output

\* deploy, lines 223-331: from the construction of the manager to the first
\* method call
deploy_with_roles(i, made, confirmed) ==
    IF made.raised # "" THEN Exit(GENERAL_ERROR, "Unexpected error")
    ELSE IF i.dry_run THEN Call("preview_deployment")
    ELSE IF ~i.auto_approve /\ ~i.json_output /\ ~confirmed
         THEN Exit(SUCCESS, "Deployment cancelled by user")
    ELSE Call("deploy")

\* a deploy that goes on without roles
DeployWithoutRoles(i, found, made, confirmed) ==
    IF found.raised = "ConfigError" THEN Exit(CONFIG_ERROR, "Configuration error")
    ELSE IF found.raised # ""
         THEN Exit(GENERAL_ERROR, "Unexpected error during configuration discovery")
    ELSE deploy_with_roles(i, made, confirmed)

\* deploy, lines 191-221: after discovery
deploy_after_discovery(i, found, made, confirmed) ==
    IF found.raised = "ConfigError" THEN Exit(CONFIG_ERROR, "Configuration error")
    ELSE IF found.raised # ""
         THEN Exit(GENERAL_ERROR, "Unexpected error during configuration discovery")
    ELSE IF found.value = <<>> THEN Exit(SUCCESS, "No role configurations found")
    ELSE deploy_with_roles(i, made, confirmed)

\* what a command does when the manager method m has ended with ret
after_method(i, m, ret, confirmed) ==
    CASE i.cmd = "deploy" /\ m = "preview_deployment" ->
            IF ret.raised # "" THEN Exit(GENERAL_ERROR, "Preview failed")
            ELSE Exit(SUCCESS, "Dry run preview completed")
      [] i.cmd = "deploy" /\ m = "deploy" ->
            IF ret.raised # "" THEN Exit(GENERAL_ERROR, "Deployment failed")
            ELSE Call("get_outputs")
      [] i.cmd = "deploy" /\ m = "get_outputs" ->
            IF ret.raised # "" THEN Exit(GENERAL_ERROR, "Deployment failed")
            ELSE Exit(SUCCESS, "Deployment successful")
      [] i.cmd = "destroy" /\ m = "get_stack_info" ->
            IF ret.raised # "" THEN Exit(GENERAL_ERROR, "Destroy failed")
            ELSE IF ret.value = "None" THEN Exit(CONFIG_ERROR, "Stack not found")
            ELSE IF ~i.auto_approve /\ ~i.json_output /\ ~confirmed
                 THEN Exit(SUCCESS, "Destruction cancelled by user")
            ELSE Call("destroy")
      [] i.cmd = "destroy" /\ m = "destroy" ->
            IF ret.raised # "" THEN Exit(GENERAL_ERROR, "Destroy failed")
            ELSE Exit(SUCCESS, "Stack destroyed successfully")
      [] i.cmd = "status" /\ m = "get_stack_info" ->
            IF ret.raised # "" THEN Exit(GENERAL_ERROR, "Status check failed")
            ELSE IF ret.value = "None" THEN Exit(CONFIG_ERROR, "Stack not found")
            ELSE Call("get_outputs")
      [] OTHER ->
            IF ret.raised # "" THEN Exit(GENERAL_ERROR, "Status check failed")
            ELSE Exit(SUCCESS, "Stack found")

first_step(m) ==
    IF m = "get_outputs" THEN first_step_of_get_outputs ELSE "create_or_select_stack"

\* The command leaves with a status or calls the next manager method.
CliDoes(next) ==
    /\ exit_code' = next.exit
    /\ report' = next.message
    /\ IF next.call = ""
       THEN /\ method' = method
            /\ pc' = "idle"
            /\ cidx' = cidx
            /\ mret' = mret
       ELSE MethodBegin(next.call, first_step(next.call))

\* No invocation is running.
CliIdle ==
    /\ pc \in {"idle", "ret"}
    /\ (inv.cmd = "none" \/ exit_code # -1)

NoManager ==
    /\ stack_name' = <<>>
    /\ aws_region' = <<>>
    /\ aws_profile' = <<>>

Manager(made) ==
    IF made.raised # "" THEN NoManager
    ELSE /\ stack_name' = made.value.stack_name
         /\ aws_region' = made.value.aws_region
         /\ aws_profile' = made.value.aws_profile

\* A new process: nothing of the one before is left but the backend and the files.
NewProcess(i) ==
    /\ CliIdle
    /\ inv' = i
    /\ calls' = <<>>
    /\ current_stack' = <<>>
    /\ account_dirs' = <<>>
    /\ total_errors' = 0
    /\ stack_files' = <<>>
    /\ found_stacks' = <<>>
    /\ UNCHANGED <<stacks, fs, ncalls, pidx, resources, exports, created_roles, pstatus,
                   default_tags>>

\* click rejects the --account-id before the command's body runs
Rejected ==
    /\ account_stack_name' = <<>>
    /\ role_configs' = <<>>
    /\ lcall' = [op |-> "none", account_id |-> <<>>, target |-> <<>>]
    /\ lresult' = Returned(<<>>)
    /\ NoManager
    /\ exit_code' = BAD_PARAMETER
    /\ report' = "Invalid AWS Account ID format"
    /\ confirm_answer' = "unasked"
    /\ method' = ""
    /\ pc' = "idle"
    /\ cidx' = 0
    /\ mret' = MethodReturn("None", {})

\* click.confirm is only called without --auto-approve and without --json-output
Answers(i) == IF i.auto_approve \/ i.json_output THEN {TRUE} ELSE BOOLEAN

\* The role directories of CliFileSystems hold no inline policy files, so
\* every listing order of their files gives the same RoleConfig.
CliNameOrder == <<DETAILS_JSON, MANAGED_JSON>>

\* deploy, up to its exit or its first manager method call
CliDeploy(i) ==
    /\ i.cmd = "deploy"
    /\ NewProcess(i)
    /\ IF ~validate_aws_account_id(i.account_id) THEN Rejected
       ELSE \E dir_order \in Orders(EntriesOf(i.account_id)), confirmed \in Answers(i) :
            LET name == account_stack_name_of(i.stack_name, i.account_id)
                found == discover_role_configs(i.account_id, i.role_name,
                                               dir_order, CliNameOrder)
                made == PulumiStackManager(
                            [project_name |-> "oidc-role-manager",
                             stack_name |-> name,
                             aws_region |-> i.aws_region,
                             aws_profile |-> i.aws_profile,
                             json_output |-> i.json_output])
                next == deploy_after_discovery(i, found, made, confirmed)
            IN /\ account_stack_name' = name
               /\ lcall' = [op |-> "discover", account_id |-> i.account_id,
                            target |-> i.role_name]
               /\ lresult' = found
               /\ role_configs' = IF next.call # "" THEN found.value ELSE <<>>
               /\ IF found.raised = "" /\ found.value # <<>> THEN Manager(made)
                  ELSE NoManager
               /\ method' = IF next.call = "" THEN "" ELSE next.call
               /\ pc' = IF next.call = "" THEN "idle" ELSE first_step(next.call)
               /\ cidx' = 0
               /\ mret' = MethodReturn("None", {})
               /\ exit_code' = next.exit
               /\ report' = next.message
               /\ confirm_answer' = IF deploy_asks(i, found, made) THEN Answer(confirmed)
                                    ELSE "unasked"

\* destroy and status, up to their first manager method call
CliDestroyOrStatus(i) ==
    /\ i.cmd \in {"destroy", "status"}
    /\ NewProcess(i)
    /\ IF ~validate_aws_account_id(i.account_id) THEN Rejected
       ELSE LET name == account_stack_name_of(i.stack_name, i.account_id)
                made == PulumiStackManager(
                            [project_name |-> "oidc-role-manager", stack_name |-> name])
            IN /\ account_stack_name' = name
               /\ role_configs' = <<>>
               /\ lcall' = [op |-> "none", account_id |-> <<>>, target |-> <<>>]
               /\ lresult' = Returned(<<>>)
               /\ Manager(made)
               /\ exit_code' = -1
               /\ report' = ""
               /\ confirm_answer' = "unasked"
               /\ MethodBegin("get_stack_info", "create_or_select_stack")

\* A manager method has returned or raised, and the command goes on.
CliGoesOn ==
    /\ inv.cmd # "none"
    /\ exit_code = -1
    /\ pc = "ret"
    /\ \E confirmed \in Answers(inv) :
        /\ CliDoes(after_method(inv, method, mret, confirmed))
        /\ confirm_answer' = IF destroy_asks(inv, method, mret) THEN Answer(confirmed)
                             ELSE confirm_answer
    /\ UNCHANGED <<stacks, stack_name, current_stack, calls, ncalls, pvars, mvars, lvars,
                   inv, account_stack_name, account_dirs, total_errors, stack_files,
                   found_stacks>>

\* click turns a KeyboardInterrupt that leaves a command into Abort, and
\* Abort into this exit status
CLICK_ABORT == 1

\* a handler that swallows the interrupt
InterruptIgnored(cmd) == SUCCESS

\* The exit status of an interrupted command: deploy catches KeyboardInterrupt
\* itself (lines 333-335); destroy and status let it through to click.
interrupt_exit(cmd) == IF cmd = "deploy" THEN GENERAL_ERROR ELSE CLICK_ABORT

\* What an engine call that is interrupted may have done to the backend:
\* nothing, all of its work, or, for destroy, any part of it.
InterruptedBackends ==
    IF pc = "create_or_select_stack" /\ stack_name \notin DOMAIN stacks
    THEN {stacks, DictSet(stacks, stack_name, NewStack)}
    ELSE IF pc = "destroy"
    THEN {[stacks EXCEPT ![stack_name] =
                [@ EXCEPT !.recorded = @ \cap keep, !.actual = @ \cap keep,
                          !.outputs = IF keep = {} THEN {} ELSE @]] :
            keep \in SUBSET (stacks[stack_name].recorded \cup stacks[stack_name].actual)}
    ELSE {stacks}

\* KeyboardInterrupt during discovery (deploy, lines 197-201): no except
\* Exception clause catches it, the one at line 333 does
CliDeployInterrupted(i) ==
    /\ i.cmd = "deploy"
    /\ validate_aws_account_id(i.account_id)
    /\ NewProcess(i)
    /\ account_stack_name' = account_stack_name_of(i.stack_name, i.account_id)
    /\ lcall' = [op |-> "discover", account_id |-> i.account_id, target |-> i.role_name]
    /\ lresult' = Raised("KeyboardInterrupt")
    /\ role_configs' = <<>>
    /\ NoManager
    /\ method' = ""
    /\ pc' = "idle"
    /\ cidx' = 0
    /\ mret' = MethodReturn("None", {})
    /\ exit_code' = interrupt_exit(i.cmd)
    /\ report' = "Deployment interrupted by user"
    /\ confirm_answer' = "unasked"

\* KeyboardInterrupt during an engine call of a command: the methods' except
\* Exception clauses do not catch it, and the command ends
CliInterrupted ==
    /\ inv.cmd # "none"
    /\ exit_code = -1
    /\ pc \notin {"idle", "ret"}
    /\ Logged(IF pc = "current_outputs" THEN "outputs" ELSE pc, "KeyboardInterrupt")
    /\ stacks' \in InterruptedBackends
    /\ mret' = MethodRaise("KeyboardInterrupt")
    /\ pc' = "idle"
    /\ exit_code' = interrupt_exit(inv.cmd)
    /\ report' = IF inv.cmd = "deploy" THEN "Deployment interrupted by user" ELSE "Aborted!"
    /\ UNCHANGED <<stack_name, current_stack, method, cidx, ncalls, pvars, mvars, lvars,
                   inv, account_stack_name, account_dirs, total_errors, confirm_answer,
                   stack_files, found_stacks>>

----------------------------------------------------------------------------
(***************************************************************************)
(* Invocations of the three commands, one after the other, on a roles      *)
(* directory and a backend that may already hold a deployed stack.         *)
(***************************************************************************)
SHORT_ACCOUNT == <<"1","2">>
AccountArgs == {ACCOUNT_A, ACCOUNT_B, SHORT_ACCOUNT}
BaseNames == {DEV, <<"p">>}

Invocation(cmd, account_id, base, role, dry_run, auto_approve, json_output, region) ==
    [cmd |-> cmd, account_id |-> account_id, stack_name |-> base, role_name |-> role,
     dry_run |-> dry_run, auto_approve |-> auto_approve, json_output |-> json_output,
     aws_region |-> region, aws_profile |-> <<>>]

\* deploy on account A's default stack with every combination of options,
\* and a dry run with every combination of arguments
DeployInvocations ==
    {Invocation("deploy", ACCOUNT_A, DEV, <<>>, d, y, j, g) :
        d \in BOOLEAN, y \in BOOLEAN, j \in BOOLEAN, g \in Regions}
    \cup {Invocation("deploy", a, b, r, TRUE, FALSE, FALSE, <<>>) :
            a \in AccountArgs, b \in BaseNames, r \in {<<>>, RoleDir(1)}}

DestroyInvocations ==
    {Invocation("destroy", ACCOUNT_A, DEV, <<>>, FALSE, y, j, <<>>) :
        y \in BOOLEAN, j \in BOOLEAN}
    \cup {Invocation("destroy", a, b, <<>>, FALSE, TRUE, FALSE, <<>>) :
            a \in AccountArgs, b \in BaseNames}

StatusInvocations ==
    {Invocation("status", a, b, <<>>, FALSE, FALSE, FALSE, <<>>) :
        a \in AccountArgs, b \in BaseNames}
    \cup {Invocation("status", ACCOUNT_A, DEV, <<>>, FALSE, FALSE, TRUE, <<>>)}

CliFileSystems ==
    {EmptyDict,
     DictSet(EmptyDict, ACCOUNT_A, AccountDir(<<>>, FALSE)),
     DictSet(EmptyDict, ACCOUNT_A,
             AccountDir(<<Files1(DETAILS_JSON, Invalid),
                          Files1(DETAILS_JSON, GoodDetails(<<"R">>))>>, FALSE)),
     DictSet(EmptyDict, ACCOUNT_A,
             AccountDir(<<Files1(DETAILS_JSON, GoodDetails(<<"R">>)),
                          Files2(DETAILS_JSON, GoodDetails(DEPLOY \o <<"R">>),
                                 MANAGED_JSON, List(<<<<"p","1">>>>))>>, FALSE))}

\* the stack an earlier deployment of configs has left in the backend
DeployedStack(configs) ==
    LET rs == program_resources(configs)
        ids == {rs[k].id : k \in 1..Len(rs)}
        es == program_role_exports(configs)
              \o program_exports(program_created_roles(<<>>, configs))
    IN [config |-> EmptyDict, recorded |-> ids, actual |-> ids,
        outputs |-> {es[k].key : k \in 1..Len(es)}]

CliBackends ==
    {EmptyDict,
     DictSet(EmptyDict, account_stack_name_of(DEV, ACCOUNT_A),
             DeployedStack(<<ManagerRole(1, <<"R">>, <<>>)>>))}

InitCli ==
    /\ InitProgramIdle
    /\ fs \in CliFileSystems
    /\ lcall = [op |-> "none", account_id |-> <<>>, target |-> <<>>]
    /\ lresult = Returned(<<>>)
    /\ stacks \in CliBackends
    /\ stack_name = <<>>
    /\ current_stack = <<>>
    /\ method = ""
    /\ pc = "idle"
    /\ cidx = 0
    /\ calls = <<>>
    /\ mret = MethodReturn("None", {})
    /\ ncalls = 0
    /\ inv = NoInvocation
    /\ account_stack_name = <<>>
    /\ exit_code = -1
    /\ report = ""
    /\ account_dirs = <<>>
    /\ total_errors = 0
    /\ confirm_answer = "unasked"
    /\ stack_files = <<>>
    /\ found_stacks = <<>>

\* The engine calls are those the three commands get to.
NextCli ==
    \/ \E i \in DeployInvocations : CliDeploy(i)
    \/ \E i \in DestroyInvocations \cup StatusInvocations : CliDestroyOrStatus(i)
    \/ CliGoesOn
    \/ \E i \in DeployInvocations : CliDeployInterrupted(i)
    \/ CliInterrupted
    \/ EngineCreateOrSelect
    \/ EngineInfo
    \/ EngineDestroy
    \/ EngineOutputs

SpecCli == InitCli /\ [][NextCli]_vars

----------------------------------------------------------------------------
(***************************************************************************)
(* Claims about the command-line front end.                                *)
(***************************************************************************)
\* The invocation has ended and its command body had run.
Exited(cmd) ==
    /\ inv.cmd = cmd
    /\ exit_code # -1
    /\ validate_aws_account_id(inv.account_id)

\* C3: a deploy --dry-run whose discovery returned at least one role has,
\* when it ends, called preview exactly once, with all the discovered roles,
\* has never called up, and ends with exit code 0.
C3_DryRunPreviewsOnceAndExitsZero ==
    (Exited("deploy") /\ inv.dry_run /\ lresult.raised = "" /\ lresult.value # <<>>)
        => /\ Cardinality(CallsOf("preview")) = 1
           /\ role_configs = lresult.value
           /\ CallsOf("up") = {}
           /\ exit_code = SUCCESS

\* The name the invocation computes, the manager's name and the stack of
\* every engine call so far.
StackNameEverywhere ==
    (inv.cmd \in {"deploy", "destroy", "status"} /\ validate_aws_account_id(inv.account_id))
        => /\ account_stack_name = inv.stack_name \o <<"-">> \o inv.account_id
           /\ stack_name \in {<<>>, account_stack_name}
           /\ \A k \in 1..Len(calls) : calls[k].stack = account_stack_name
           /\ \A a \in AccountArgs \ {inv.account_id} :
                account_stack_name_of(inv.stack_name, a) # account_stack_name

\* A step leaves every stack alone but the invocation's own.
OtherStacksUntouched ==
    \A n \in DOMAIN stacks :
        n # account_stack_name' => (n \in DOMAIN stacks' /\ stacks'[n] = stacks[n])

\* C9: in deploy, destroy and status the stack name is the base name, "-"
\* and the account id, whatever the command; the manager is built for that
\* name and every engine call of the invocation is made on it; with the same
\* base no other account id gives that name, and no step of an invocation
\* changes a stack of another name.
C9_StackNameIsBaseAndAccount ==
    []StackNameEverywhere /\ [][OtherStacksUntouched]_vars

\* A status of account B has read its stack while the backend holds the
\* stack of account A under the same base name.
C9_Witness ==
    /\ Exited("status")
    /\ inv.account_id = ACCOUNT_B
    /\ inv.stack_name = DEV
    /\ exit_code = SUCCESS
    /\ \E k \in 1..Len(calls) : calls[k].op = "outputs" /\ calls[k].ok
    /\ account_stack_name_of(DEV, ACCOUNT_A) \in DOMAIN stacks
    /\ stacks[account_stack_name_of(DEV, ACCOUNT_A)].recorded # {}

----------------------------------------------------------------------------
(***************************************************************************)
(* The stack manager under both of its users: a caller of its methods      *)
(* (SpecManager) and the command line (SpecCli).                           *)
(***************************************************************************)
\* A manager built by a caller of its methods, not by a command.
CalledDirectly == inv.cmd = "none" /\ stack_name # <<>>

InitSystem == InitManager \/ InitCli

NextSystem ==
    \/ CalledDirectly /\ NextManager
    \/ ~CalledDirectly /\ NextCli

SpecSystem == InitSystem /\ [][NextSystem]_vars

\* The engine operations that change or diff a stack.
EngineOperations == {"create_or_select_stack", "refresh", "preview", "up", "destroy"}

\* C11: when an engine call fails inside preview_deployment, deploy or
\* destroy, it is the last engine call of that method call and of the CLI
\* invocation, the method raises the very error the engine raised, a command
\* that called the method exits with the general error status, and within
\* one such method call no engine operation is invoked twice.
C11_FailureIsPropagatedAndNotRetried ==
    \A k \in 1..Len(calls) :
        calls[k].method \in {"preview_deployment", "deploy", "destroy"} =>
            /\ ~calls[k].ok =>
                /\ k = Len(calls)
                /\ pc \in {"ret", "idle"}
                /\ (pc = "ret" => mret.raised = calls[k].err)
                /\ (pc = "idle" => exit_code = GENERAL_ERROR)
            /\ \A j \in 1..Len(calls) :
                (j # k /\ calls[j].method = calls[k].method /\ calls[j].op = calls[k].op)
                    => calls[k].op \notin EngineOperations

\* A deploy whose up was refused because another update holds the stack.
C11_Witness ==
    /\ method = "deploy"
    /\ pc = "ret"
    /\ Len(calls) >= 3
    /\ calls[Len(calls)].op = "up"
    /\ calls[Len(calls)].err = "ConcurrentUpdateError"
    /\ mret.raised = "ConcurrentUpdateError"

\* Discovery, preview or apply has failed in the invocation.
DeployStepFailed ==
    \/ lresult.raised # ""
    \/ \E k \in 1..Len(calls) : ~calls[k].ok
    \/ mret.raised # ""

\* C12: a deploy that got past argument validation ends with one of the exit
\* codes 0, 1 and 2: with 2 exactly when discovery raised a configuration
\* error, with 1 exactly when discovery, preview or apply failed in another
\* way, and with 0 exactly when nothing failed.
C12_DeployExitCodes ==
    Exited("deploy") =>
        /\ exit_code \in {SUCCESS, GENERAL_ERROR, CONFIG_ERROR}
        /\ exit_code = CONFIG_ERROR <=> lresult.raised = "ConfigError"
        /\ exit_code = GENERAL_ERROR <=> (DeployStepFailed /\ lresult.raised # "ConfigError")
        /\ exit_code = SUCCESS <=> ~DeployStepFailed

\* The invocation was ended by an interrupt.
Interrupted ==
    /\ inv.cmd # "none"
    /\ exit_code # -1
    /\ (lresult.raised = "KeyboardInterrupt" \/ mret.raised = "KeyboardInterrupt")

\* The interrupted engine call, if any, is the last one of the invocation,
\* and no other call was interrupted.
NothingAfterInterrupt ==
    \A k \in 1..Len(calls) : calls[k].err = "KeyboardInterrupt" => k = Len(calls)

\* C13 as stated: an interrupt during discovery or an engine call ends the
\* invocation with a non-zero exit status that no other kind of error uses,
\* and no engine call is made after it.
C13_InterruptHasItsOwnExitStatus ==
    Interrupted =>
        /\ exit_code \notin {SUCCESS, GENERAL_ERROR, CONFIG_ERROR, BAD_PARAMETER}
        /\ NothingAfterInterrupt

\* C13, amended: an interrupt during discovery or an engine call ends the
\* invocation with exit status 1, the status of a general error, and no
\* engine call is made after it.
C13_InterruptExitsWithGeneralError ==
    /\ Interrupted => (exit_code = GENERAL_ERROR /\ NothingAfterInterrupt)
    /\ (inv.cmd # "none" /\ exit_code = -1) => \A k \in 1..Len(calls) : calls[k].err # "KeyboardInterrupt"

\* A destroy command interrupted while the engine was destroying the stack.
C13_Witness ==
    /\ Interrupted
    /\ inv.cmd = "destroy"
    /\ calls # <<>>
    /\ calls[Len(calls)].op = "destroy"
    /\ calls[Len(calls)].err = "KeyboardInterrupt"

\* get_stack_info is asked about a stack the backend does not hold.
InfoOfMissingStack ==
    /\ method = "get_stack_info"
    /\ pc = "create_or_select_stack"
    /\ stack_name \notin DOMAIN stacks

\* get_stack_info has ended: it has not raised, and it has returned None when
\* one of its engine calls failed.
InfoNeverRaises ==
    (method = "get_stack_info" /\ pc = "ret") =>
        /\ mret.raised = ""
        /\ (\E k \in 1..Len(calls) : ~calls[k].ok) => mret.value = "None"

\* destroy and status after a get_stack_info that returned None
NotFoundIsReported ==
    (inv.cmd \in {"destroy", "status"} /\ exit_code # -1
        /\ method = "get_stack_info" /\ mret.raised = "" /\ mret.value = "None")
        => /\ exit_code = CONFIG_ERROR
           /\ report = "Stack not found"
           /\ CallsOf("destroy") = {}
           /\ CallsOf("outputs") = {}

C15_NoRolesIsSuccessWithoutEngine ==
    (Exited("deploy") /\ lresult.raised = "" /\ lresult.value = <<>>)
        => /\ exit_code = SUCCESS
           /\ report = "No role configurations found"
           /\ stack_name = <<>>
           /\ method = ""
           /\ calls = <<>>

\* A dry run whose only role directory was rejected.
C15_Witness ==
    /\ Exited("deploy")
    /\ inv.dry_run
    /\ lresult.raised = ""
    /\ lresult.value = <<>>
    /\ lresult.errors # <<>>
    /\ exit_code = SUCCESS

----------------------------------------------------------------------------
(***************************************************************************)
(* Further claims about the Configuration Loader.                          *)
(***************************************************************************)
\* C16: a discovery with a role filter raises nothing and loads no directory
\* but the one of exactly that name: the result holds that role alone when
\* the directory is there and well-formed, and is empty when the directory is
\* rejected, is a plain file or does not exist.
C16_FilterLoadsOneDirectory ==
    (lcall.op = "discover" /\ lcall.target # <<>>) =>
        /\ lresult.raised = ""
        /\ Len(lresult.value) <= 1
        /\ \A k \in 1..Len(lresult.value) : lresult.value[k].role_name_dir = lcall.target
        /\ \A k \in 1..Len(lresult.errors) : lresult.errors[k] = lcall.target
        /\ IF lcall.target \in RoleDirsOf(lcall.account_id)
           THEN Len(lresult.value) = 1 <=> WellFormed(FilesOf(lcall.account_id, lcall.target))
           ELSE lresult.value = <<>> /\ lresult.errors = <<>>

\* The filter names one of two well-formed role directories.
C16_Witness ==
    /\ lcall.op = "discover"
    /\ lcall.target = RoleDir(1)
    /\ Len(lresult.value) = 1
    /\ RoleDir(2) \in RoleDirsOf(lcall.account_id)
    /\ WellFormed(FilesOf(lcall.account_id, RoleDir(2)))

\* The directory a direct load was asked for is a role directory.
LoadedDirExists == lcall.target \in RoleDirsOf(lcall.account_id)

\* C17: load_role_config raises ConfigError, and gives no RoleConfig, when
\* the role directory does not exist, when details.json is missing, is not
\* valid JSON or is not a JSON object, and when it lacks one of the three
\* required keys; it returns a RoleConfig only in none of these cases.
C17_DirectLoadRaises ==
    lcall.op = "load" =>
        /\ lresult.raised \in {"", "ConfigError"}
        /\ lresult.raised = "ConfigError" => lresult.value = <<>>
        /\ ~LoadedDirExists => lresult.raised = "ConfigError"
        /\ (LoadedDirExists /\ ~DetailsOk(FilesOf(lcall.account_id, lcall.target)))
                => lresult.raised = "ConfigError"
        /\ lresult.raised = "" =>
                /\ LoadedDirExists
                /\ DetailsOk(FilesOf(lcall.account_id, lcall.target))
                /\ lresult.value.role_name_dir = lcall.target

\* A direct load of a directory whose details.json is an object without
\* oidcProviderUrl.
C17_Witness ==
    /\ lcall.op = "load"
    /\ LoadedDirExists
    /\ DETAILS_JSON \in DOMAIN FilesOf(lcall.account_id, lcall.target)
    /\ FilesOf(lcall.account_id, lcall.target)[DETAILS_JSON].kind = "dict"
    /\ "oidcProviderUrl" \notin DOMAIN FilesOf(lcall.account_id, lcall.target)[DETAILS_JSON].val
    /\ lresult.raised = "ConfigError"

\* C18: for a role directory with a valid details.json, a load gives the
\* empty list of managed policies when managed-policies.json is absent and
\* the file's list, in its order, when the file holds a JSON list, whatever
\* the inline policy files are; when the file is there and is not a JSON list
\* the load raises ConfigError, and discovery leaves the role out.
C18_ManagedPoliciesFile ==
    /\ (lcall.op = "load" /\ LoadedDirExists
            /\ DetailsOk(FilesOf(lcall.account_id, lcall.target))) =>
        LET files == FilesOf(lcall.account_id, lcall.target)
        IN IF MANAGED_JSON \notin DOMAIN files
           THEN lresult.raised = "" /\ lresult.value.managed_policies = <<>>
           ELSE IF files[MANAGED_JSON].kind = "list"
           THEN lresult.raised = ""
                /\ lresult.value.managed_policies = files[MANAGED_JSON].val
           ELSE lresult.raised = "ConfigError" /\ lresult.value = <<>>
    /\ lcall.op = "discover" =>
        \A d \in RoleDirsOf(lcall.account_id) :
            ~ManagedOk(FilesOf(lcall.account_id, d)) => d \notin ReturnedDirs

\* A direct load of a role whose managed-policies.json is unparsable or not
\* a list.
C18_Witness ==
    /\ lcall.op = "load"
    /\ LoadedDirExists
    /\ DetailsOk(FilesOf(lcall.account_id, lcall.target))
    /\ ~ManagedOk(FilesOf(lcall.account_id, lcall.target))
    /\ lresult.raised = "ConfigError"

----------------------------------------------------------------------------
(***************************************************************************)
(* The builder called more than once in one process.  role_configs is the  *)
(* list of the RoleConfigs the calls are made with, in order, and may hold *)
(* the same RoleConfig twice; resources is the log of the requests the     *)
(* calls made.  What the engine answers to a request is not the builder's. *)
(***************************************************************************)
RepeatDetails ==
    {d \in DetailsObjects :
        /\ d.roleName = <<"R">>
        /\ d.oidcProviderUrl = HTTPS \o Host
        /\ d.githubSubjectClaim = <<"r",":","a">>}

RepeatInline ==
    {<<>>, <<[name |-> InlineName(<<"a">>), doc |-> PolicyDoc]>>}

RepeatConfigs ==
    {RoleConfig(ACCOUNT_A, RoleDir(1), d, m, p, BaseDir) :
        d \in RepeatDetails, m \in {l \in ManagedLists : Len(l) <= 1}, p \in RepeatInline}

InitRepeat ==
    /\ role_configs \in {<<c, d>> : c \in RepeatConfigs, d \in RepeatConfigs}
    /\ InitProgramState
    /\ aws_region \in Regions
    /\ aws_profile = <<>>

SpecRepeat == InitRepeat /\ [][NextProgram]_vars

\* The requests of the k-th call, cut out of the log by the number of
\* requests each call makes: one role and one per policy.
RequestsOfCall(k) ==
    LET size(i) == 1 + Len(role_configs[i].managed_policies)
                     + Len(role_configs[i].inline_policies)
        RECURSIVE before(_)
        before(i) == IF i = 0 THEN (IF aws_region # <<>> THEN 1 ELSE 0)
                     ELSE before(i - 1) + size(i)
    IN SubSeq(resources, before(k - 1) + 1, before(k))

\* C19: the builder is idempotent and keeps no state: two calls with the same
\* RoleConfig make the same requests (same resource identifiers, same trust
\* policy, same tags, same policy names), every call made so far made the
\* requests a call with its RoleConfig makes now, whatever was built in
\* between, and the table of default tags is what constants.py defines.
C19_BuilderIsIdempotentAndStateless ==
    /\ default_tags = DEFAULT_TAGS
    /\ \A k \in 1..pidx : RequestsOfCall(k) = role_resources(role_configs[k])
    /\ \A i, j \in 1..pidx :
          role_configs[i] = role_configs[j] => RequestsOfCall(i) = RequestsOfCall(j)

\* both calls were made with one RoleConfig that has tags of its own and
\* policies of both kinds
C19_Witness ==
    /\ pidx = 2
    /\ role_configs[1] = role_configs[2]
    /\ "tags" \in DOMAIN role_configs[1].details
    /\ role_configs[1].details.tags.kind = "dict"
    /\ role_configs[1].managed_policies # <<>>
    /\ role_configs[1].inline_policies # <<>>
    /\ Len(RequestsOfCall(2)) = 3

----------------------------------------------------------------------------
\* X of a file name inline-<X>.json: the name without its first
\* Len("inline-") and its last Len(".json") characters.
BetweenPrefixAndSuffix(policy_file_name) ==
    SubSeq(policy_file_name, Len(INLINE_PREFIX) + 1,
           Len(policy_file_name) - Len(JSON_SUFFIX))

\* The aws.iam.RolePolicy requests of the k-th call; the i-th belongs to the
\* i-th file of the RoleConfig's inline_policies.
InlineRequestsOfCall(k) == SelectSeq(RequestsOfCall(k), LAMBDA r : r.type = "RolePolicy")

\* C20: for every inline policy file inline-<X>.json of a role that was
\* built, the derived policy name is X, the file name without the leading
\* "inline-" and the trailing ".json" and with every other occurrence of
\* these strings kept, and the policy's cloud-side name is <roleName>-<X>.
C20_InlinePolicyNameIsFileNameStripped ==
    \A k \in 1..pidx :
        LET config == role_configs[k]
            files == config.inline_policies
            requests == InlineRequestsOfCall(k)
        IN /\ Len(requests) = Len(files)
           /\ \A i \in 1..Len(files) :
                LET X == BetweenPrefixAndSuffix(files[i].name)
                IN /\ cleaned_policy_name_from_file(files[i].name) = X
                   /\ requests[i].name = config.details.roleName \o <<"-">> \o X

----------------------------------------------------------------------------
(***************************************************************************)
(* The validate command (cli.py, lines 436-478).  fs holds the directories *)
(* of the roles directory; the plain files iterdir() gives as well are     *)
(* dropped by d.is_dir() at line 442.                                      *)
(***************************************************************************)
\* str.isdigit
isdigit(value) ==
    /\ value # <<>>
    /\ \A k \in 1..Len(value) : value[k] \in DIGITS

\* validate, line 442: the directories whose name is made of digits
AccountDirNames == {d \in DOMAIN fs : isdigit(d)}

\* validate, lines 436-448: up to the loop over the account directories
CliValidate ==
    /\ CliIdle
    /\ inv' = [cmd |-> "validate"]
    /\ \E order \in Orders(AccountDirNames) :
        /\ account_dirs' = order
        /\ IF order = <<>>
           THEN /\ exit_code' = CONFIG_ERROR
                /\ report' = "No account directories found"
           ELSE /\ exit_code' = -1
                /\ report' = ""
    /\ total_errors' = 0
    /\ stack_files' = <<>>
    /\ found_stacks' = <<>>
    /\ confirm_answer' = "unasked"
    /\ calls' = <<>>
    /\ current_stack' = <<>>
    /\ account_stack_name' = <<>>
    /\ role_configs' = <<>>
    /\ lcall' = [op |-> "none", account_id |-> <<>>, target |-> <<>>]
    /\ lresult' = Returned(<<>>)
    /\ NoManager
    /\ method' = ""
    /\ pc' = "idle"
    /\ cidx' = 0
    /\ mret' = MethodReturn("None", {})
    /\ UNCHANGED <<stacks, fs, ncalls, pidx, resources, exports, created_roles, pstatus,
                   default_tags>>

\* validate, lines 449-467: one iteration of the loop
CliValidateAccount ==
    /\ inv.cmd = "validate"
    /\ exit_code = -1
    /\ account_dirs # <<>>
    /\ LET account_id == Head(account_dirs)
       IN \E dir_order \in Orders(EntriesOf(account_id)) :
            LET configs == discover_role_configs(account_id, <<>>, dir_order, CliNameOrder)
            IN /\ lcall' = [op |-> "discover", account_id |-> account_id, target |-> <<>>]
               /\ lresult' = configs
               /\ total_errors' = IF configs.raised = "ConfigError"
                                  THEN total_errors + 1 ELSE total_errors
               /\ exit_code' = IF configs.raised \in {"", "ConfigError"}
                               THEN -1 ELSE GENERAL_ERROR
               /\ report' = IF configs.raised = "ConfigError" THEN "Configuration error"
                            ELSE IF configs.raised # "" THEN "Validation failed"
                            ELSE IF configs.value # <<>> THEN "Found valid role(s)"
                            ELSE "No roles found"
    /\ account_dirs' = Tail(account_dirs)
    /\ UNCHANGED <<fs, pvars, mvars, evars, inv, account_stack_name, confirm_answer,
                   stack_files, found_stacks>>

\* validate, lines 469-474: after the loop
CliValidateEnd ==
    /\ inv.cmd = "validate"
    /\ exit_code = -1
    /\ account_dirs = <<>>
    /\ IF total_errors > 0
       THEN /\ exit_code' = CONFIG_ERROR
            /\ report' = "Validation completed with error(s)"
       ELSE /\ exit_code' = SUCCESS
            /\ report' = "All configurations are valid!"
    /\ UNCHANGED <<pvars, mvars, lvars, evars, inv, account_stack_name, account_dirs,
                   total_errors, confirm_answer, stack_files, found_stacks>>

\* Roles directories with no, one or two account directories, with
\* directories whose names are no account ids, and with role directories
\* that load and that do not.
GoodRole == Files1(DETAILS_JSON, GoodDetails(<<"R">>))
BadRole == Files1(DETAILS_JSON, Invalid)
NOT_AN_ACCOUNT == <<"d","o","c","s">>

ValidateFileSystems ==
    {EmptyDict,
     DictSet(EmptyDict, NOT_AN_ACCOUNT, AccountDir(<<GoodRole>>, FALSE)),
     DictSet(EmptyDict, ACCOUNT_A, AccountDir(<<>>, FALSE)),
     DictSet(EmptyDict, ACCOUNT_A, AccountDir(<<GoodRole>>, TRUE)),
     DictSet(EmptyDict, ACCOUNT_A, AccountDir(<<BadRole, GoodRole>>, FALSE)),
     DictSet(DictSet(EmptyDict, ACCOUNT_A, AccountDir(<<GoodRole>>, FALSE)),
             ACCOUNT_B, AccountDir(<<BadRole>>, FALSE)),
     DictSet(DictSet(EmptyDict, ACCOUNT_A, AccountDir(<<GoodRole, GoodRole>>, FALSE)),
             ACCOUNT_B, AccountDir(<<GoodRole>>, FALSE)),
     DictSet(DictSet(EmptyDict, ACCOUNT_A, AccountDir(<<GoodRole>>, FALSE)),
             SHORT_ACCOUNT, AccountDir(<<GoodRole>>, FALSE)),
     DictSet(DictSet(EmptyDict, ACCOUNT_A, AccountDir(<<GoodRole>>, FALSE)),
             NOT_AN_ACCOUNT, AccountDir(<<BadRole>>, FALSE))}

\* dry runs of deploy for well-formed and for short account ids
ValidateDeployInvocations ==
    {Invocation("deploy", a, b, r, TRUE, FALSE, FALSE, <<>>) :
        a \in AccountArgs, b \in BaseNames, r \in {<<>>, RoleDir(1)}}

InitValidate ==
    /\ InitProgramIdle
    /\ fs \in ValidateFileSystems
    /\ lcall = [op |-> "none", account_id |-> <<>>, target |-> <<>>]
    /\ lresult = Returned(<<>>)
    /\ InitEngineIdle

\* validate and deploy, one invocation after the other
NextValidate ==
    \/ CliValidate
    \/ CliValidateAccount
    \/ CliValidateEnd
    \/ \E i \in ValidateDeployInvocations : CliDeploy(i)

SpecValidate == InitValidate /\ [][NextValidate]_vars

\* C21: every RoleConfig a CLI command has constructed has an account_id of
\* exactly twelve digits, and the account id of every discovery and of every
\* engine operation a command has run is a string of exactly twelve digits.
C21_AccountIdsHaveTwelveDigits ==
    inv.cmd # "none" =>
        /\ lcall.op = "discover" =>
              /\ validate_aws_account_id(lcall.account_id)
              /\ \A k \in 1..Len(lresult.value) :
                    validate_aws_account_id(lresult.value[k].account_id)
        /\ \A k \in 1..Len(role_configs) :
              validate_aws_account_id(role_configs[k].account_id)
        /\ \A k \in 1..Len(calls) :
              /\ validate_aws_account_id(inv.account_id)
              /\ calls[k].stack = account_stack_name_of(inv.stack_name, inv.account_id)

\* A role directory of an account directory validate examines does not load.
SomeExaminedRoleInvalid ==
    \E a \in AccountDirNames : \E n \in RoleDirsOf(a) :
        load_role_config(a, n, CliNameOrder).raised # ""

\* C22: validate exits with the configuration-error code 2 and a report of
\* the error whenever a role configuration under an account directory it
\* examines is invalid, and it has then examined every account directory;
\* it exits with 0 and the report that all configurations are valid only
\* when no examined role configuration was invalid.
C22_ValidateReportsInvalidRoles ==
    (inv.cmd = "validate" /\ exit_code # -1) =>
        /\ SomeExaminedRoleInvalid =>
              /\ exit_code = CONFIG_ERROR
              /\ report = "Validation completed with error(s)"
              /\ account_dirs = <<>>
        /\ exit_code = SUCCESS =>
              /\ ~SomeExaminedRoleInvalid
              /\ report = "All configurations are valid!"

----------------------------------------------------------------------------
\* --auto-approve was set or the user answered the prompt with yes
ApprovalGiven == inv.auto_approve \/ confirm_answer = "yes"

\* The engine's up or destroy has been invoked in this invocation.
AppliedOrDestroyed == \E k \in 1..Len(calls) : calls[k].op \in {"up", "destroy"}

\* C23: a deploy without --dry-run that had approval and discovered at least
\* one role has, when it ends, made one discovery and then called the
\* manager with all the discovered roles, and has never invoked preview; when
\* no engine call failed it has invoked up exactly once and read the outputs
\* exactly once, after up, and its exit code is 0; when up failed it has
\* not read the outputs and its exit code is 1.
C23_DeployAppliesOnceThenReadsOutputs ==
    (/\ Exited("deploy")
     /\ ~inv.dry_run
     /\ ApprovalGiven
     /\ lresult.raised = ""
     /\ lresult.value # <<>>)
        => /\ lcall.op = "discover"
           /\ role_configs = lresult.value
           /\ CallsOf("preview") = {}
           /\ (\A k \in 1..Len(calls) : calls[k].ok) =>
                 /\ Cardinality(CallsOf("up")) = 1
                 /\ Cardinality(CallsOf("outputs")) = 1
                 /\ \A u \in CallsOf("up"), o \in CallsOf("outputs") : u < o
                 /\ exit_code = SUCCESS
           /\ (\E u \in CallsOf("up") : ~calls[u].ok) =>
                 /\ CallsOf("outputs") = {}
                 /\ exit_code = GENERAL_ERROR

\* C24: in a deploy and in a destroy the manager's deploy or destroy is
\* called, and the engine's up or destroy invoked, only when --auto-approve
\* was set or the user answered the confirmation prompt with yes; when the
\* user answered no, neither is invoked and the exit code is 0.
C24_ApplyAndDestroyNeedApproval ==
    inv.cmd \in {"deploy", "destroy"} =>
        /\ (method \in {"deploy", "destroy"} \/ AppliedOrDestroyed) => ApprovalGiven
        /\ confirm_answer = "no" =>
              /\ exit_code = SUCCESS
              /\ method \notin {"deploy", "destroy"}
              /\ ~AppliedOrDestroyed

----------------------------------------------------------------------------
\* get_stack_info or get_outputs is being executed: by a caller of the
\* manager, by status, or by destroy for its existence check.
ReadOnlyMethodRuns ==
    /\ method \in {"get_stack_info", "get_outputs"}
    /\ pc \notin {"idle", "ret"}

\* C25: the read-only operations do not change the engine's state: no step
\* of get_stack_info or of get_outputs, whoever called it, adds a stack to
\* the backend or removes one, so a stack that is missing is still missing
\* after them.
C25_ReadOnlyOperationsCreateNoStack ==
    [][ReadOnlyMethodRuns => DOMAIN stacks' = DOMAIN stacks]_vars

----------------------------------------------------------------------------
(***************************************************************************)
(* The declarative program when the builder can fail.                      *)
(***************************************************************************)
\* pulumi_program, lines 66-74: the builder raises at one of its resource
\* registrations, having made those before it; the except clause logs and
\* re-raises, which ends the program
ProgramDefineRoleFails ==
    /\ pstatus = "roles"
    /\ pidx < Len(role_configs)
    /\ LET made == role_resources(role_configs[pidx + 1])
       IN \E n \in 0..(Len(made) - 1) : resources' = resources \o SubSeq(made, 1, n)
    /\ pstatus' = "failed"
    /\ UNCHANGED <<role_configs, pidx, exports, created_roles, default_tags, mvars, lvars,
                   evars, cvars>>

NextProgramRun == NextProgram \/ ProgramDefineRoleFails

SpecProgramRun == InitProgram /\ [][NextProgramRun]_vars

\* the exports the builder itself has made for the roles 1..n
RECURSIVE BuilderExports(_)
BuilderExports(n) ==
    IF n = 0 THEN <<>> ELSE BuilderExports(n - 1) \o role_exports(role_configs[n])

\* C26: one run of the program calls the builder once per RoleConfig of its
\* list, in list order; when the builder fails for a role the program ends
\* there, no later role is processed and the program exports no stack
\* output; when it ends without a failure every RoleConfig was processed
\* and the mapping it returns has one entry per RoleConfig of the list.
C26_OneBuilderCallPerRoleConfig ==
    /\ pstatus \in {"roles", "done"} =>
          /\ Len(RoleRequests) = pidx
          /\ \A i \in 1..pidx : RoleRequests[i].name = role_name(role_configs[i])
    /\ pstatus = "failed" =>
          /\ pidx < Len(role_configs)
          /\ Len(RoleRequests) <= pidx + 1
          /\ exports = BuilderExports(pidx)
    /\ pstatus = "done" =>
          /\ pidx = Len(role_configs)
          /\ Len(created_roles) = Len(role_configs)

----------------------------------------------------------------------------
\* the pulumi.export calls of the program's own export loop
ProgramExportLog == SubSeq(exports, Len(BuilderExports(pidx)) + 1, Len(exports))

KeysOf(log) == {log[k].key : k \in 1..Len(log)}

\* C27: the stack output keys exported by one run of the program are
\* pairwise distinct across roles: the export loop uses no key twice, its
\* entries being the roles of different names, and the keys the builder
\* exports for two RoleConfigs of different role names differ, so no role's
\* outputs are overwritten by another role's.
C27_OutputKeysDistinctAcrossRoles ==
    pstatus = "done" =>
        /\ \A i, j \in 1..Len(ProgramExportLog) :
              i # j => ProgramExportLog[i].key # ProgramExportLog[j].key
        /\ \A i, j \in 1..Len(role_configs) :
              role_name(role_configs[i]) # role_name(role_configs[j]) =>
                  KeysOf(role_exports(role_configs[i]))
                      \cap KeysOf(role_exports(role_configs[j])) = {}

----------------------------------------------------------------------------
\* The remembered stack changes only in the step of a deploy in which up
\* has succeeded, and becomes the manager's stack.
HandleSetOnlyBySuccessfulUp ==
    current_stack' # current_stack =>
        /\ method = "deploy"
        /\ pc = "up"
        /\ calls'[Len(calls')].op = "up"
        /\ calls'[Len(calls')].ok
        /\ current_stack' = stack_name

\* the engine calls of a get_outputs from its call number k on are the
\* selection of the stack and, when that succeeded, one read of its outputs,
\* and the method ends as the last of them does
SelectsAndReadsFrom(k) ==
    /\ Len(calls) >= k
    /\ calls[k].op = "create_or_select_stack"
    /\ IF calls[k].ok
       THEN /\ Len(calls) = k + 1
            /\ calls[k + 1].op = "outputs"
            /\ mret.raised = calls[k + 1].err
       ELSE /\ Len(calls) = k
            /\ mret.raised = calls[k].err

GetOutputsUsesTheHandle ==
    (inv.cmd = "none" /\ method = "get_outputs" /\ pc = "ret") =>
        IF current_stack # <<>>
        THEN /\ calls[1].op = "outputs"
             /\ calls[1].stack = current_stack
             /\ IF calls[1].ok
                THEN /\ Len(calls) = 1
                     /\ mret.raised = ""
                     /\ mret.outputs = stacks[current_stack].outputs
                ELSE SelectsAndReadsFrom(2)
        ELSE SelectsAndReadsFrom(1)

\* C28: over any sequence of method calls on one manager, a stack handle is
\* remembered only by an up that succeeded, so that a failed deploy leaves
\* it as it was; get_outputs reads from the remembered handle without
\* selecting the stack when there is one, and when there is none, or when
\* that read fails, it selects the stack once and reads from it once, a
\* failure of the selection or of that read being raised to the caller.
C28_OutputsComeFromTheRememberedStack ==
    []GetOutputsUsesTheHandle /\ [][HandleSetOnlyBySuccessfulUp]_vars

\* after a deploy, a get_outputs whose read from the remembered handle
\* failed has selected the stack and read the outputs from it
C28_Witness ==
    /\ inv.cmd = "none"
    /\ method = "get_outputs"
    /\ pc = "ret"
    /\ current_stack # <<>>
    /\ Len(calls) = 3
    /\ ~calls[1].ok
    /\ mret.raised = ""

----------------------------------------------------------------------------
\* the RoleConfig with another issuer URL
WithIssuer(config, url) ==
    [config EXCEPT !.details = [@ EXCEPT !.oidcProviderUrl = url]]

TrustPolicyOf(config) == role_resources(config)[1].assume_role_policy

\* C29: the federation identifier of every role that was built is the
\* configured issuer URL without one leading "https://" when it has one,
\* and the URL itself otherwise, and the provider ARN is
\* arn:aws:iam::<account>:oidc-provider/<identifier>; the role's trust
\* policy is the one built for that identifier as the issuer, and when the
\* identifier H has no scheme of its own, also the one built for https://H.
C29_SchemeIsStrippedOnce ==
    \A i \in 1..Len(RoleRequests) :
        LET config == role_configs[i]
            url == config.details.oidcProviderUrl
            provider == construct_github_oidc_provider_details(config.account_id, url)
            H == IssuerOf(config)
        IN /\ provider[2] = H
           /\ StartsWith(url, HTTPS) => (Len(H) = Len(url) - Len(HTTPS) /\ url = HTTPS \o H)
           /\ ~StartsWith(url, HTTPS) => H = url
           /\ provider[1] = ARN_PREFIX \o config.account_id \o OIDC_PROVIDER \o H
           /\ RoleRequests[i].assume_role_policy.Statement[1].Principal.Federated
                = provider[1]
           /\ ~StartsWith(H, HTTPS) =>
                /\ RoleRequests[i].assume_role_policy = TrustPolicyOf(WithIssuer(config, H))
                /\ RoleRequests[i].assume_role_policy
                     = TrustPolicyOf(WithIssuer(config, HTTPS \o H))

\* a role was built from an issuer URL that carries the scheme twice, and
\* its provider ARN still carries it once
C29_Witness ==
    /\ pidx = 1
    /\ role_configs[1].details.oidcProviderUrl = HTTPS \o HTTPS \o Host
    /\ RoleRequests[1].assume_role_policy.Statement[1].Principal.Federated
         = ARN_PREFIX \o role_configs[1].account_id \o OIDC_PROVIDER \o HTTPS \o Host

----------------------------------------------------------------------------
(***************************************************************************)
(* The list-stacks command (cli.py, list_stacks).  The engine's file       *)
(* backend keeps one state file <stack name>.json per stack in             *)
(* .pulumi-state/.pulumi/stacks/oidc-role-manager.                         *)
(***************************************************************************)
state_file_of(name) == name \o JSON_SUFFIX

\* The pattern rf"{re.escape(stack_name)}-(\d{{12}})\.json$", tried on
\* file_name from position start on: the literal base name, "-", twelve
\* digits, ".json" and the end of the name.  The value is the twelve digits,
\* or <<>> when the pattern does not match there.
pattern_match_at(base, file_name, start) ==
    LET n == start - 1 + Len(base)
    IN IF /\ Len(file_name) = n + 1 + 12 + Len(JSON_SUFFIX)
          /\ SubSeq(file_name, start, n) = base
          /\ file_name[n + 1] = "-"
          /\ \A k \in (n + 2)..(n + 13) : file_name[k] \in DIGITS
          /\ SubSeq(file_name, n + 14, Len(file_name)) = JSON_SUFFIX
       THEN SubSeq(file_name, n + 2, n + 13)
       ELSE <<>>

\* stack_pattern.search in place of stack_pattern.match
PatternSearch(base, file_name) ==
    LET found == {j \in 1..Len(file_name) : pattern_match_at(base, file_name, j) # <<>>}
    IN IF found = {} THEN <<>>
       ELSE pattern_match_at(base, file_name, CHOOSE j \in found : TRUE)

\* stack_pattern.match(stack_file.name): re.match tries the start only
stack_pattern_match(base, file_name) == pattern_match_at(base, file_name, 1)

\* list_stacks, up to the loop over the state files
CliListStacks(base) ==
    /\ CliIdle
    /\ inv' = [cmd |-> "list-stacks", stack_name |-> base]
    /\ IF DOMAIN stacks = {}
       THEN /\ stack_files' = <<>>
            /\ exit_code' = SUCCESS
            /\ report' = "No stacks found"
       ELSE /\ stack_files' \in Orders({state_file_of(n) : n \in DOMAIN stacks})
            /\ exit_code' = -1
            /\ report' = ""
    /\ found_stacks' = <<>>
    /\ account_dirs' = <<>>
    /\ total_errors' = 0
    /\ confirm_answer' = "unasked"
    /\ calls' = <<>>
    /\ current_stack' = <<>>
    /\ account_stack_name' = <<>>
    /\ role_configs' = <<>>
    /\ lcall' = [op |-> "none", account_id |-> <<>>, target |-> <<>>]
    /\ lresult' = Returned(<<>>)
    /\ NoManager
    /\ method' = ""
    /\ pc' = "idle"
    /\ cidx' = 0
    /\ mret' = MethodReturn("None", {})
    /\ UNCHANGED <<stacks, fs, ncalls, pidx, resources, exports, created_roles, pstatus,
                   default_tags>>

\* list_stacks, the head of the loop: a file that does not match is passed
\* over, for one that matches a manager is built and get_stack_info called
CliListNextFile ==
    /\ inv.cmd = "list-stacks"
    /\ exit_code = -1
    /\ pc = "idle"
    /\ stack_files # <<>>
    /\ LET account_id == stack_pattern_match(inv.stack_name, Head(stack_files))
           name == account_stack_name_of(inv.stack_name, account_id)
           made == PulumiStackManager(
                       [project_name |-> "oidc-role-manager", stack_name |-> name])
       IN IF account_id = <<>> \/ made.raised # ""
          THEN /\ stack_files' = Tail(stack_files)
               /\ UNCHANGED <<account_stack_name, stack_name, aws_region, aws_profile,
                              current_stack, method, pc, cidx, mret>>
          ELSE /\ stack_files' = stack_files
               /\ account_stack_name' = name
               /\ Manager(made)
               /\ current_stack' = <<>>
               /\ MethodBegin("get_stack_info", "create_or_select_stack")
    /\ UNCHANGED <<stacks, calls, ncalls, pvars, lvars, inv, exit_code, report,
                   account_dirs, total_errors, confirm_answer, found_stacks>>

\* list_stacks, the rest of the loop body: get_outputs after get_stack_info,
\* and the stack's entry after get_outputs; an exception ends the work on
\* this file without an entry
CliListGoesOn ==
    /\ inv.cmd = "list-stacks"
    /\ exit_code = -1
    /\ pc = "ret"
    /\ IF method = "get_stack_info" /\ mret.raised = ""
       THEN /\ MethodBegin("get_outputs", first_step_of_get_outputs)
            /\ UNCHANGED <<stack_files, found_stacks>>
       ELSE /\ found_stacks' =
                 IF mret.raised # "" THEN found_stacks
                 ELSE Append(found_stacks,
                             [account_id |-> stack_pattern_match(inv.stack_name,
                                                                 Head(stack_files)),
                              stack_name |-> account_stack_name,
                              has_resources |-> Cardinality(mret.outputs) > 0,
                              output_count |-> Cardinality(mret.outputs)])
            /\ stack_files' = Tail(stack_files)
            /\ method' = ""
            /\ pc' = "idle"
            /\ UNCHANGED <<cidx, mret>>
    /\ UNCHANGED <<stacks, stack_name, current_stack, calls, ncalls, pvars, mvars, lvars,
                   inv, account_stack_name, exit_code, report, account_dirs, total_errors,
                   confirm_answer>>

\* list_stacks, after the loop
CliListEnd ==
    /\ inv.cmd = "list-stacks"
    /\ exit_code = -1
    /\ pc = "idle"
    /\ stack_files = <<>>
    /\ exit_code' = SUCCESS
    /\ report' = IF found_stacks = <<>> THEN "No stacks found with base name"
                 ELSE "Found stack(s)"
    /\ UNCHANGED <<pvars, mvars, lvars, evars, inv, account_stack_name, account_dirs,
                   total_errors, confirm_answer, stack_files, found_stacks>>

\* Backends with up to two stacks: stacks named for accounts A and B under
\* the bases dev, p and p-dev, and stacks whose account part has too few or
\* too many digits.
P_DEV == <<"p","-">> \o DEV
ListBases == {DEV, <<"p">>}

ListStackNames ==
    {account_stack_name_of(DEV, ACCOUNT_A),
     account_stack_name_of(DEV, ACCOUNT_B),
     account_stack_name_of(<<"p">>, ACCOUNT_A),
     account_stack_name_of(P_DEV, ACCOUNT_A),
     account_stack_name_of(DEV, SHORT_ACCOUNT),
     account_stack_name_of(DEV, ACCOUNT_A \o <<"1">>)}

ListBackends ==
    {[n \in names |-> IF n = account_stack_name_of(DEV, ACCOUNT_A)
                      THEN DeployedStack(<<ManagerRole(1, <<"R">>, <<>>)>>)
                      ELSE NewStack] :
        names \in {S \in SUBSET ListStackNames : Cardinality(S) <= 2}}

InitList ==
    /\ InitProgramIdle
    /\ fs = EmptyDict
    /\ lcall = [op |-> "none", account_id |-> <<>>, target |-> <<>>]
    /\ lresult = Returned(<<>>)
    /\ stacks \in ListBackends
    /\ stack_name = <<>>
    /\ current_stack = <<>>
    /\ method = ""
    /\ pc = "idle"
    /\ cidx = 0
    /\ calls = <<>>
    /\ mret = MethodReturn("None", {})
    /\ ncalls = 0
    /\ inv = NoInvocation
    /\ account_stack_name = <<>>
    /\ exit_code = -1
    /\ report = ""
    /\ account_dirs = <<>>
    /\ total_errors = 0
    /\ confirm_answer = "unasked"
    /\ stack_files = <<>>
    /\ found_stacks = <<>>

NextList ==
    \/ \E base \in ListBases : CliListStacks(base)
    \/ CliListNextFile
    \/ CliListGoesOn
    \/ CliListEnd
    \/ EngineCreateOrSelect
    \/ EngineInfo
    \/ EngineOutputs

SpecList == InitList /\ [][NextList]_vars

\* name is the stack name deploy gives to a base name and some account id
\* of exactly twelve digits
IsNameFor(base, name) ==
    /\ Len(name) > 12
    /\ LET account_id == SubSeq(name, Len(name) - 11, Len(name))
       IN /\ validate_aws_account_id(account_id)
          /\ name = account_stack_name_of(base, account_id)

ListedNames == {found_stacks[k].stack_name : k \in 1..Len(found_stacks)}

\* get_outputs has raised for the stack
OutputsNotRead(name) ==
    \E k \in 1..Len(calls) :
        calls[k].stack = name /\ calls[k].method = "get_outputs" /\ ~calls[k].ok

\* the pattern for B finds A in the name of the state file of B-A
PatternFindsTheAccount ==
    \A base \in ListBases \cup {P_DEV} : \A account_id \in {ACCOUNT_A, ACCOUNT_B} :
        stack_pattern_match(base, state_file_of(account_stack_name_of(base, account_id)))
            = account_id

ListingMatchesNaming ==
    (inv.cmd = "list-stacks" /\ exit_code # -1) =>
        /\ PatternFindsTheAccount
        /\ \A name \in DOMAIN stacks :
              name \in ListedNames <=>
                  (IsNameFor(inv.stack_name, name) /\ ~OutputsNotRead(name))
        /\ \A k \in 1..Len(found_stacks) :
              /\ validate_aws_account_id(found_stacks[k].account_id)
              /\ found_stacks[k].stack_name =
                    account_stack_name_of(inv.stack_name, found_stacks[k].account_id)
              /\ found_stacks[k].stack_name \in DOMAIN stacks
        /\ \A j, k \in 1..Len(found_stacks) :
              j # k => found_stacks[j].stack_name # found_stacks[k].stack_name

\* list-stacks opens no stack that the backend does not hold
ListingOpensOnlyStateEntries ==
    inv.cmd = "list-stacks" => DOMAIN stacks' = DOMAIN stacks

\* C30: naming and listing round-trip: when list-stacks for the base name B
\* has ended, the state entry of the stack that deploy names for B and a
\* 12-digit account A is listed, with account id A and stack name B-A,
\* unless its outputs could not be read; no other state entry is listed: not
\* one of another base name, and not one whose account part is not exactly
\* twelve digits; and the listing opens only stacks that have a state entry.
C30_ListingRoundTripsStackNames ==
    []ListingMatchesNaming /\ [][ListingOpensOnlyStateEntries]_vars

\* a listing for dev has ended with the stack of account A as its only
\* entry, on a backend that also holds the stack of that account under the
\* base name p-dev
C30_Witness ==
    /\ inv.cmd = "list-stacks"
    /\ exit_code = SUCCESS
    /\ inv.stack_name = DEV
    /\ Len(found_stacks) = 1
    /\ found_stacks[1].account_id = ACCOUNT_A
    /\ found_stacks[1].stack_name = account_stack_name_of(DEV, ACCOUNT_A)
    /\ account_stack_name_of(P_DEV, ACCOUNT_A) \in DOMAIN stacks

=============================================================================
